---- MODULE Spec2Model ----
(***************************************************************************)
(* Numbered-notation <-> MIDI codec (lib/music.ts): the notation parser,   *)
(* the pitch mapper, the MIDI writer, the MIDI reader and the score        *)
(* reconstructor, as operators over character and byte sequences, and the  *)
(* conversions as actions of small state machines that apply them.         *)
(*                                                                         *)
(* Representation.  A text is a sequence of one-character strings.  A      *)
(* beat count is an integer number of 1/BeatUnit beats (BeatUnit is a      *)
(* power of two large enough for every dotted duration the bounded texts   *)
(* can hold), so 1.5^n and the sums the code forms are exact, as they are  *)
(* in the code's doubles.  A header number is a rational [n, d] or NaN.    *)
(* Bytes are integers 0..255; a read past the end of a Uint8Array is the   *)
(* value Undef.                                                            *)
(***************************************************************************)
EXTENDS Integers, Sequences, FiniteSets, TLC

\* ------------------------------------------------------------------ bounds
MaxLen == 4          \* characters of a body typed one character at a time
MaxTokens == 3       \* tokens of a body assembled from well-formed tokens
MaxFields == 2       \* key=value fields of a header
MaxGroups == 3       \* 7-bit groups of a variable-length quantity
MaxShift == 2        \* largest |octaveShift| given to the pitch mapper
MaxAccidental == 3   \* largest |accidental| given to the pitch mapper
MaxOctaveDelta == 5  \* header octaves range over 4 +- MaxOctaveDelta
MaxCut == 3          \* bytes cut off the end of a MIDI file
MaxNotes == 3        \* note events handed to the reconstructor
MaxTracks == 3       \* track chunks of a MIDI file
MaxBytes == 12       \* bytes of a track handed to parseMidiTrack
MaxOverrun == 2      \* bytes a declared track length passes the data by

\* ------------------------------------------------------- program constants
TicksPerBeat == 480
DefaultTempo == 500000
MinBpm == 30

MAJOR_SCALE == <<0, 2, 4, 5, 7, 9, 11>>

\* The names of the key table, as character sequences
KeyNames == {<<"C">>, <<"C", "#">>, <<"D", "b">>, <<"D">>, <<"D", "#">>,
             <<"E", "b">>, <<"E">>, <<"F">>, <<"F", "#">>, <<"G", "b">>,
             <<"G">>, <<"G", "#">>, <<"A", "b">>, <<"A">>, <<"A", "#">>,
             <<"B", "b">>, <<"B">>}

\* KEY_OFFSETS[key]; -1 stands for undefined
KEY_OFFSETS(key) ==
  CASE key = <<"C">> -> 0
    [] key \in {<<"C", "#">>, <<"D", "b">>} -> 1
    [] key = <<"D">> -> 2
    [] key \in {<<"D", "#">>, <<"E", "b">>} -> 3
    [] key = <<"E">> -> 4
    [] key = <<"F">> -> 5
    [] key \in {<<"F", "#">>, <<"G", "b">>} -> 6
    [] key = <<"G">> -> 7
    [] key \in {<<"G", "#">>, <<"A", "b">>} -> 8
    [] key = <<"A">> -> 9
    [] key \in {<<"A", "#">>, <<"B", "b">>} -> 10
    [] key = <<"B">> -> 11
    [] OTHER -> -1

\* ------------------------------------------------------------- arithmetic
\* A note on the loops below.  TLC may evaluate an operator's argument anew
\* at every use, so a loop that carries a state binds the next state as a
\* value (v \in {expression}) before it iterates: the only element of
\* {loop(v) : v \in {expression}} is the loop's result.
Only(set) == CHOOSE r \in set : TRUE

RECURSIVE Pow(_, _)
Pow(b, n) == IF n = 0 THEN 1 ELSE b * Pow(b, n - 1)

Abs(x) == IF x < 0 THEN -x ELSE x
Min(a, b) == IF a < b THEN a ELSE b
Max(a, b) == IF a > b THEN a ELSE b

\* floor(a / b) for b > 0 (TLC's \div rounds towards minus infinity)
FloorDiv(a, b) == a \div b

\* Math.round(a / b) for b > 0: the nearest integer, halves towards +infinity
RoundDiv(a, b) == FloorDiv(a, b) + (IF 2 * (a % b) >= b THEN 1 ELSE 0)

clamp(value, min, max) == Max(min, Min(max, value))

\* one beat, in the unit beat counts are kept in
BeatUnit == Pow(2, MaxLen)

\* ------------------------------------------------------------- characters
Digits == <<"0", "1", "2", "3", "4", "5", "6", "7", "8", "9">>
Upper == <<"A", "B", "C", "D", "E", "F", "G", "H", "I", "J", "K", "L", "M",
           "N", "O", "P", "Q", "R", "S", "T", "U", "V", "W", "X", "Y", "Z">>
Lower == <<"a", "b", "c", "d", "e", "f", "g", "h", "i", "j", "k", "l", "m",
           "n", "o", "p", "q", "r", "s", "t", "u", "v", "w", "x", "y", "z">>

IndexIn(seq, c) ==
  IF \E k \in 1..Len(seq) : seq[k] = c
  THEN CHOOSE k \in 1..Len(seq) : seq[k] = c
  ELSE 0

IsDigit(c) == IndexIn(Digits, c) > 0
DigitValue(c) == IndexIn(Digits, c) - 1

\* String.prototype.toUpperCase / toLowerCase on one character
toUpperCase(c) == IF IndexIn(Lower, c) > 0 THEN Upper[IndexIn(Lower, c)] ELSE c
toLowerCase(c) == IF IndexIn(Upper, c) > 0 THEN Lower[IndexIn(Upper, c)] ELSE c
LowerCased(s) == [k \in 1..Len(s) |-> toLowerCase(s[k])]

\* /\s/.test(ch)
IsSpace(c) == c \in {" ", "\n", "\t"}

\* /[1-7]/.test(ch)
IsDegree(c) == c \in {"1", "2", "3", "4", "5", "6", "7"}

\* ---------------------------------------------------------------- numbers
RECURSIVE Gcd(_, _)
Gcd(a, b) == IF b = 0 THEN a ELSE Gcd(b, a % b)

\* the rational n/d (d > 0) in lowest terms
Rat(n, d) ==
  LET g == Gcd(Abs(n), d) IN [nan |-> FALSE, n |-> n \div g, d |-> d \div g]
NaN == [nan |-> TRUE, n |-> 0, d |-> 1]

RatLess(a, b) == a.n * b.d < b.n * a.d
RatDiv(a, k) == Rat(a.n, a.d * k)
RatRound(a) == RoundDiv(a.n, a.d)
RatClamp(a, lo, hi) ==
  IF RatLess(a, Rat(lo, 1)) THEN Rat(lo, 1)
  ELSE IF RatLess(Rat(hi, 1), a) THEN Rat(hi, 1) ELSE a

\* Number(value) on a string of digits, '-', '.' and letters: an optional
\* sign, digits with at most one decimal point and at least one digit; any
\* other string is NaN.
RECURSIVE DecimalLoop(_, _, _, _, _, _)
DecimalLoop(s, i, num, den, seenDot, seenDigit) ==
  IF i > Len(s)
  THEN IF seenDigit THEN Rat(num, den) ELSE NaN
  ELSE IF IsDigit(s[i])
       THEN DecimalLoop(s, i + 1, num * 10 + DigitValue(s[i]),
                        IF seenDot THEN den * 10 ELSE den, seenDot, TRUE)
       ELSE IF s[i] = "." /\ ~seenDot
            THEN DecimalLoop(s, i + 1, num, den, TRUE, seenDigit)
            ELSE NaN

Number(s) ==
  IF Len(s) > 0 /\ s[1] = "-"
  THEN LET m == DecimalLoop(s, 2, 0, 1, FALSE, FALSE)
       IN IF m.nan THEN NaN ELSE Rat(-m.n, m.d)
  ELSE DecimalLoop(s, 1, 0, 1, FALSE, FALSE)

\* ----------------------------------------------------------------- header
DEFAULT_HEADER ==
  [key |-> <<"C">>, bpm |-> Rat(120, 1), volume |-> Rat(8, 10),
   octave |-> 4, program |-> 0]

\* INSTRUMENT_MAP[name]; -1 stands for undefined
INSTRUMENT_MAP(name) == IF name = <<"p", "i", "a", "n", "o">> THEN 0 ELSE -1

\* value.charAt(0).toUpperCase() + value.slice(1)
Capitalize(value) ==
  IF Len(value) = 0 THEN value
  ELSE <<toUpperCase(value[1])>> \o SubSeq(value, 2, Len(value))

\* The positional form of the header: key, program number, BPM.
parseHeaderPositional(tokens) ==
  LET h1 == IF Len(tokens) >= 1
            THEN [DEFAULT_HEADER EXCEPT !.key = Capitalize(tokens[1])]
            ELSE DEFAULT_HEADER
      programNumber == IF Len(tokens) >= 2 THEN Number(tokens[2]) ELSE NaN
      h2 == IF ~programNumber.nan
            THEN [h1 EXCEPT !.program = clamp(RatRound(programNumber), 0, 127)]
            ELSE h1
      bpm == IF Len(tokens) >= 3 THEN Number(tokens[3]) ELSE NaN
  IN IF ~bpm.nan /\ bpm.n > 0 THEN [h2 EXCEPT !.bpm = bpm] ELSE h2

\* key === "instr" || key === "program"
programField(header, value) ==
  LET programNumber == Number(value)
      mapped == INSTRUMENT_MAP(LowerCased(value))
  IN IF ~programNumber.nan
     THEN [header EXCEPT !.program = clamp(RatRound(programNumber), 0, 127)]
     ELSE IF mapped # -1 THEN [header EXCEPT !.program = mapped] ELSE header

\* key === "bpm", with the guard bpm > 0 left out
bpmFieldUnguarded(header, value) ==
  LET bpm == Number(value)
  IN IF ~bpm.nan THEN [header EXCEPT !.bpm = bpm] ELSE header

\* key === "bpm"
bpmField(header, value) ==
  LET bpm == Number(value)
  IN IF ~bpm.nan /\ bpm.n > 0 THEN [header EXCEPT !.bpm = bpm] ELSE header

\* key === "vol", with the division by 127 applied from 1 on instead of above 1
volFieldFromOne(header, value) ==
  LET vol == Number(value)
  IN IF ~vol.nan /\ vol.n > 0
     THEN [header EXCEPT !.volume =
             IF ~RatLess(vol, Rat(1, 1))
             THEN RatClamp(RatDiv(vol, 127), 0, 1)
             ELSE RatClamp(vol, 0, 1)]
     ELSE header

\* key === "vol"
volField(header, value) ==
  LET vol == Number(value)
  IN IF ~vol.nan /\ vol.n > 0
     THEN [header EXCEPT !.volume =
             IF RatLess(Rat(1, 1), vol)
             THEN RatClamp(RatDiv(vol, 127), 0, 1)
             ELSE RatClamp(vol, 0, 1)]
     ELSE header

\* key === "oct"
octField(header, value) ==
  LET oct == Number(value)
  IN IF ~oct.nan THEN [header EXCEPT !.octave = RatRound(oct)] ELSE header

\* One iteration of the loop over the key=value pairs.
applyField(header, keyRaw, valueRaw) ==
  LET key == LowerCased(keyRaw)
      value == valueRaw
  IN CASE key = <<"k", "e", "y">> -> [header EXCEPT !.key = Capitalize(value)]
       [] key \in {<<"i", "n", "s", "t", "r">>,
                   <<"p", "r", "o", "g", "r", "a", "m">>} -> programField(header, value)
       [] key = <<"b", "p", "m">> -> bpmField(header, value)
       [] key = <<"v", "o", "l">> -> volField(header, value)
       [] key = <<"o", "c", "t">> -> octField(header, value)
       [] OTHER -> header

RECURSIVE applyFields(_, _, _)
applyFields(header, pairs, k) ==
  IF k > Len(pairs) THEN header
  ELSE Only({applyFields(h, pairs, k + 1) :
               h \in {applyField(header, pairs[k].key, pairs[k].value)}})

\* The notation text is held in parts: whether it opens with a [...] block,
\* the whitespace-separated items of that block (a key=value pair, or a bare
\* token, which has the empty key), and the text after the block.
\* Array.from(headerText.matchAll(/([A-Za-z]+)\s*=\s*([^\s]+)/g))
pairsOf(items) == SelectSeq(items, LAMBDA it : it.key # <<>>)
\* headerText.split(/\s+/).filter(Boolean), read only when there is no pair
tokensOf(items) == [k \in 1..Len(items) |-> items[k].value]

parseHeader(input) ==
  IF ~input.bracket \/ Len(input.items) = 0
  THEN [header |-> DEFAULT_HEADER, rest |-> input.body]
  ELSE IF Len(pairsOf(input.items)) = 0
       THEN [header |-> parseHeaderPositional(tokensOf(input.items)),
             rest |-> input.body]
       ELSE [header |-> applyFields(DEFAULT_HEADER, pairsOf(input.items), 1),
             rest |-> input.body]

\* ----------------------------------------------------------------- parser
\* The modifier loop after a degree digit: counts of + - # b _ ; inside a
\* chord (skipSpace) whitespace between modifiers is skipped as well.
RECURSIVE readModifiers(_, _, _, _, _)
readModifiers(text, i, octaveShift, accidental, skipSpace) ==
  IF i > Len(text)
  THEN [next |-> i, octaveShift |-> octaveShift, accidental |-> accidental]
  ELSE LET mod == text[i]
       IN CASE mod = "+" ->
                 readModifiers(text, i + 1, octaveShift + 1, accidental, skipSpace)
            [] mod = "-" ->
                 readModifiers(text, i + 1, octaveShift - 1, accidental, skipSpace)
            [] mod = "#" ->
                 readModifiers(text, i + 1, octaveShift, accidental + 1, skipSpace)
            [] mod = "b" ->
                 readModifiers(text, i + 1, octaveShift, accidental - 1, skipSpace)
            [] mod = "_" ->
                 readModifiers(text, i + 1, octaveShift, accidental + 1, skipSpace)
            [] skipSpace /\ IsSpace(mod) ->
                 readModifiers(text, i + 1, octaveShift, accidental, skipSpace)
            [] OTHER ->
                 [next |-> i, octaveShift |-> octaveShift, accidental |-> accidental]

NoteSpec(degree, octaveShift, accidental) ==
  [degree |-> degree, octaveShift |-> octaveShift, accidental |-> accidental]

RECURSIVE noteSpecsLoop(_, _, _)
noteSpecsLoop(segment, i, notes) ==
  IF i > Len(segment) THEN [ok |-> TRUE, notes |-> notes]
  ELSE LET ch == segment[i]
       IN IF IsSpace(ch) THEN noteSpecsLoop(segment, i + 1, notes)
          ELSE IF ~IsDegree(ch) THEN [ok |-> FALSE, notes |-> <<>>]
          ELSE Only({noteSpecsLoop(segment, m.next,
                       Append(notes, NoteSpec(DigitValue(ch), m.octaveShift,
                                              m.accidental))) :
                     m \in {readModifiers(segment, i + 1, 0, 0, TRUE)}})

\* parseNoteSpecs(segment): the notes of a chord body, or a failure (throw)
parseNoteSpecs(segment) == noteSpecsLoop(segment, 1, <<>>)

RECURSIVE durationLoop(_, _, _, _)
durationLoop(text, i, dotCount, sustainCount) ==
  IF i > Len(text)
  THEN [next |-> i, dotCount |-> dotCount, sustainCount |-> sustainCount]
  ELSE IF text[i] = "." THEN durationLoop(text, i + 1, dotCount + 1, sustainCount)
  ELSE IF text[i] = "~" THEN durationLoop(text, i + 1, dotCount, sustainCount + 1)
  ELSE [next |-> i, dotCount |-> dotCount, sustainCount |-> sustainCount]

\* Math.pow taken as repeated halving of a beat: 1 + dotCount / 2
dotMultiplierLinear(dotCount) == BeatUnit + (dotCount * BeatUnit) \div 2

\* Math.pow(1.5, dotCount), in 1/BeatUnit beats
dotMultiplier(dotCount) == (Pow(3, dotCount) * BeatUnit) \div Pow(2, dotCount)

\* parseDuration(text, startIndex) = [duration, next index]
parseDuration(text, startIndex) ==
  LET run == durationLoop(text, startIndex, 0, 0)
  IN [duration |-> dotMultiplier(run.dotCount) + run.sustainCount * BeatUnit,
      next |-> run.next]

\* rest.indexOf(ch, from), 1-based; 0 stands for -1
indexOf(text, ch, from) ==
  IF \E k \in from..Len(text) : text[k] = ch
  THEN CHOOSE k \in from..Len(text) :
         text[k] = ch /\ \A j \in from..(k - 1) : text[j] # ch
  ELSE 0

ScoreEvent(type, durationBeats, notes) ==
  [type |-> type, durationBeats |-> durationBeats, notes |-> notes]

\* the state of parseScore's scan: index, events, totalBeats, thrown error
Thrown(st, message) == [st EXCEPT !.error = message]

\* a chord without ")" that ends the scan quietly, keeping the events so far
chordBranchLenient(rest, st) ==
  LET endIndex == indexOf(rest, ")", st.i + 1)
  IN IF endIndex = 0 THEN [st EXCEPT !.i = Len(rest) + 1]
     ELSE LET chordBody == SubSeq(rest, st.i + 1, endIndex - 1)
              parsed == parseNoteSpecs(chordBody)
              d == parseDuration(rest, endIndex + 1)
          IN IF ~parsed.ok THEN Thrown(st, "only notes and modifiers in a chord")
             ELSE IF Len(parsed.notes) = 0 THEN Thrown(st, "chord holds no note")
             ELSE [i |-> d.next,
                   events |-> Append(st.events,
                                ScoreEvent("chord", d.duration, parsed.notes)),
                   totalBeats |-> st.totalBeats + d.duration,
                   error |-> ""]

\* parseScore, ch = "(": a chord
chordBranch(rest, st) ==
  LET endIndex == indexOf(rest, ")", st.i + 1)
  IN IF endIndex = 0 THEN Thrown(st, "chord is missing )")
     ELSE LET chordBody == SubSeq(rest, st.i + 1, endIndex - 1)
              parsed == parseNoteSpecs(chordBody)
              d == parseDuration(rest, endIndex + 1)
          IN IF ~parsed.ok THEN Thrown(st, "only notes and modifiers in a chord")
             ELSE IF Len(parsed.notes) = 0 THEN Thrown(st, "chord holds no note")
             ELSE [i |-> d.next,
                   events |-> Append(st.events,
                                ScoreEvent("chord", d.duration, parsed.notes)),
                   totalBeats |-> st.totalBeats + d.duration,
                   error |-> ""]

\* a rest that is pushed without being added to totalBeats
restBranchUncounted(rest, st) ==
  LET d == parseDuration(rest, st.i + 1)
  IN [i |-> d.next,
      events |-> Append(st.events, ScoreEvent("rest", d.duration, <<>>)),
      totalBeats |-> st.totalBeats,
      error |-> ""]

\* parseScore, ch = "0": a rest
restBranch(rest, st) ==
  LET d == parseDuration(rest, st.i + 1)
  IN [i |-> d.next,
      events |-> Append(st.events, ScoreEvent("rest", d.duration, <<>>)),
      totalBeats |-> st.totalBeats + d.duration,
      error |-> ""]

\* parseScore, ch in 1..7: a single note
noteBranch(rest, st) ==
  LET m == readModifiers(rest, st.i + 1, 0, 0, FALSE)
      d == parseDuration(rest, m.next)
  IN [i |-> d.next,
      events |-> Append(st.events,
                   ScoreEvent("note", d.duration,
                     <<NoteSpec(DigitValue(rest[st.i]), m.octaveShift, m.accidental)>>)),
      totalBeats |-> st.totalBeats + d.duration,
      error |-> ""]

RECURSIVE scoreLoop(_, _)
scoreLoop(rest, st) ==
  IF st.error # "" \/ st.i > Len(rest) THEN st
  ELSE LET ch == rest[st.i]
       IN CASE IsSpace(ch) ->
                 Only({scoreLoop(rest, s) : s \in {[st EXCEPT !.i = st.i + 1]}})
            [] ch = "(" ->
                 Only({scoreLoop(rest, s) : s \in {chordBranch(rest, st)}})
            [] ch = "0" ->
                 Only({scoreLoop(rest, s) : s \in {restBranch(rest, st)}})
            [] IsDegree(ch) ->
                 Only({scoreLoop(rest, s) : s \in {noteBranch(rest, st)}})
            [] OTHER -> Thrown(st, "unrecognised symbol")

\* parseScore(input): the Score, or (ok = FALSE) the error thrown, in which
\* case the caller receives no header, no events and no total.
parseScore(input) ==
  LET h == parseHeader(input)
      st == scoreLoop(h.rest, [i |-> 1, events |-> <<>>, totalBeats |-> 0, error |-> ""])
  IN IF st.error # ""
     THEN [ok |-> FALSE, error |-> st.error, header |-> DEFAULT_HEADER,
           events |-> <<>>, totalBeats |-> 0]
     ELSE [ok |-> TRUE, error |-> "", header |-> h.header,
           events |-> st.events, totalBeats |-> st.totalBeats]

\* ----------------------------------------------------------- pitch mapper
KeyOffsetOrZero(header) ==
  IF KEY_OFFSETS(header.key) = -1 THEN 0 ELSE KEY_OFFSETS(header.key)

\* MAJOR_SCALE[degree - 1] ?? 0
ScaleOffset(degree) == IF degree \in 1..7 THEN MAJOR_SCALE[degree] ELSE 0

degreeToMidi(degree, octaveShift, accidental, header) ==
  LET keyOffset == KeyOffsetOrZero(header)
      baseC == 12 * (header.octave + 1)
      tonic == baseC + keyOffset
      scaleOffset == ScaleOffset(degree)
      midi == tonic + scaleOffset + accidental + octaveShift * 12
  IN clamp(midi, 0, 127)

\* the candidate accidental of one degree, folded by +-12
foldAccidental(pitchClass, degree) ==
  LET a0 == pitchClass - ScaleOffset(degree)
      a1 == IF a0 > 6 THEN a0 - 12 ELSE a0
  IN IF a1 < -6 THEN a1 + 12 ELSE a1

\* the spelling that never leaves degree 1
bestDegreeOne(pitchClass, degree, best) ==
  [bestDegree |-> 1, bestAccidental |-> foldAccidental(pitchClass, 1),
   bestDistance |-> Abs(foldAccidental(pitchClass, 1))]

\* the loop with <= for <: the last of the nearest degrees wins
RECURSIVE bestDegreeLast(_, _, _)
bestDegreeLast(pitchClass, degree, best) ==
  IF degree > 7 THEN best
  ELSE LET accidental == foldAccidental(pitchClass, degree)
           distance == Abs(accidental)
       IN IF best.bestDistance = -1 \/ distance <= best.bestDistance
          THEN bestDegreeLast(pitchClass, degree + 1,
                 [bestDegree |-> degree, bestAccidental |-> accidental,
                  bestDistance |-> distance])
          ELSE bestDegreeLast(pitchClass, degree + 1, best)

\* the loop over degree = 1..7; bestDistance = -1 stands for +Infinity
RECURSIVE bestDegreeLoop(_, _, _)
bestDegreeLoop(pitchClass, degree, best) ==
  IF degree > 7 THEN best
  ELSE LET accidental == foldAccidental(pitchClass, degree)
           distance == Abs(accidental)
       IN IF best.bestDistance = -1 \/ distance < best.bestDistance
          THEN bestDegreeLoop(pitchClass, degree + 1,
                 [bestDegree |-> degree, bestAccidental |-> accidental,
                  bestDistance |-> distance])
          ELSE bestDegreeLoop(pitchClass, degree + 1, best)

\* the spelling with diff / 12 truncated towards zero
midiNoteToSpecTruncated(note, header) ==
  LET keyOffset == KeyOffsetOrZero(header)
      tonic == 12 * (header.octave + 1) + keyOffset
      diff == note - tonic
      octaveShift == IF diff < 0 THEN -((-diff) \div 12) ELSE diff \div 12
      pitchClass == diff % 12
      best == bestDegreeLoop(pitchClass, 1,
                [bestDegree |-> 1, bestAccidental |-> 0, bestDistance |-> -1])
  IN NoteSpec(best.bestDegree, octaveShift, best.bestAccidental)

midiNoteToSpec(note, header) ==
  LET keyOffset == KeyOffsetOrZero(header)
      tonic == 12 * (header.octave + 1) + keyOffset
      diff == note - tonic
      octaveShift == FloorDiv(diff, 12)
      pitchClass == diff % 12
      best == bestDegreeLoop(pitchClass, 1,
                [bestDegree |-> 1, bestAccidental |-> 0, bestDistance |-> -1])
  IN NoteSpec(best.bestDegree, octaveShift, best.bestAccidental)

\* ------------------------------------------------------ 32-bit arithmetic
\* The bitwise operators work on signed 32-bit values.  Every operator here
\* takes and returns such a value and forms no intermediate outside it.

\* x << k, for 2 <= k <= 30: the low 32-k bits move up, the top one is the sign
ShiftLeft(x, k) ==
  LET m == Pow(2, 32 - k)
      low == x % m
  IN IF low >= m \div 2 THEN (low - m) * Pow(2, k) ELSE low * Pow(2, k)

ShiftRight(x, k) == FloorDiv(x, Pow(2, k))   \* x >> k, the sign kept
LowBits(x, k) == x % Pow(2, k)               \* x & (2^k - 1)

\* data[offset] of a Uint8Array, offsets from 0; Undef outside the array
Undef == -1
At(data, offset) ==
  IF offset >= 0 /\ offset < Len(data) THEN data[offset + 1] ELSE Undef

\* a byte inside a bitwise expression; undefined reads as 0
ByteOrZero(b) == IF b = Undef THEN 0 ELSE b

\* byte & mask for the masks the code uses; undefined & mask = 0
And7f(byte) == IF byte = Undef THEN 0 ELSE byte % 128
And80(byte) == IF byte = Undef THEN 0 ELSE (byte \div 128) * 128
AndF0(byte) == IF byte = Undef THEN 0 ELSE (byte \div 16) * 16
And0F(byte) == IF byte = Undef THEN 0 ELSE byte % 16

\* ------------------------------------------------ variable-length quantity
\* while ((value >>= 7)) { buffer <<= 8; buffer |= (value & 0x7f) | 0x80; }
RECURSIVE packVarLen(_, _)
packVarLen(value, buffer) ==
  LET v == ShiftRight(value, 7)
  IN IF v = 0 THEN buffer
     ELSE packVarLen(v, ShiftLeft(buffer, 8) + LowBits(v, 7) + 128)

\* while (true) { bytes.push(buffer & 0xff);
\*                if (buffer & 0x80) buffer >>= 8; else break; }
RECURSIVE unpackVarLen(_, _)
unpackVarLen(buffer, bytes) ==
  LET out == Append(bytes, LowBits(buffer, 8))
  IN IF And80(LowBits(buffer, 8)) # 0
     THEN unpackVarLen(ShiftRight(buffer, 8), out)
     ELSE out

writeVarLen(value) == unpackVarLen(packVarLen(value, LowBits(value, 7)), <<>>)

\* the reader that takes all eight bits of a byte as payload
RECURSIVE readVarLenWide(_, _, _)
readVarLenWide(data, i, value) ==
  IF ~(i < Len(data)) THEN [value |-> value, next |-> i]
  ELSE LET byte == At(data, i)
           v == ShiftLeft(value, 7) + ByteOrZero(byte)
       IN IF And80(byte) = 0 THEN [value |-> v, next |-> i + 1]
          ELSE readVarLenWide(data, i + 1, v)

RECURSIVE readVarLenLoop(_, _, _)
readVarLenLoop(data, i, value) ==
  IF ~(i < Len(data)) THEN [value |-> value, next |-> i]
  ELSE LET byte == At(data, i)
           v == ShiftLeft(value, 7) + And7f(byte)
       IN IF And80(byte) = 0 THEN [value |-> v, next |-> i + 1]
          ELSE readVarLenLoop(data, i + 1, v)

readVarLen(data, offset) == readVarLenLoop(data, offset, 0)

\* ------------------------------------------------------------ MIDI writer
TempoOrder == 0
ProgramOrder == 1
ControllerOrder == 2
NoteOnOrder == 3
NoteOffOrderLast == NoteOnOrder + 1     \* a note-off sorted after the note-ons of its tick
NoteOffOrder == 0

MidiEvent(tick, order, bytes) == [tick |-> tick, order |-> order, bytes |-> bytes]

\* Math.round(event.durationBeats * ticksPerBeat)
durationTicks(event, ticksPerBeat) ==
  RoundDiv(event.durationBeats * ticksPerBeat, BeatUnit)

\* clamp(Math.round(header.volume * 127), 1, 127)
velocityOf(header) ==
  clamp(RoundDiv(header.volume.n * 127, header.volume.d), 1, 127)

\* Math.round(60000000 / bpm)
tempoOf(header) == RoundDiv(60000000 * header.bpm.d, header.bpm.n)

\* the three messages of tick 0
headMessages(header) ==
  LET tempo == tempoOf(header)
  IN << MidiEvent(0, TempoOrder,
          <<255, 81, 3, LowBits(ShiftRight(tempo, 16), 8),
            LowBits(ShiftRight(tempo, 8), 8), LowBits(tempo, 8)>>),
        MidiEvent(0, ProgramOrder, <<192, LowBits(header.program, 7)>>),
        MidiEvent(0, ControllerOrder, <<176, 7, velocityOf(header)>>) >>

\* for (const note of midiNotes): a note-on at tick, a note-off at the end
RECURSIVE noteMessages(_, _, _, _, _, _)
noteMessages(header, notes, k, tick, ticks, velocity) ==
  IF k > Len(notes) THEN <<>>
  ELSE LET note == degreeToMidi(notes[k].degree, notes[k].octaveShift,
                                notes[k].accidental, header)
       IN << MidiEvent(tick, NoteOnOrder, <<144, note, velocity>>),
             MidiEvent(tick + ticks, NoteOffOrder, <<128, note, 0>>) >>
          \o noteMessages(header, notes, k + 1, tick, ticks, velocity)

\* for (const event of events): rests only move the tick cursor
RECURSIVE eventMessages(_, _, _, _, _)
eventMessages(header, events, k, tick, ticksPerBeat) ==
  IF k > Len(events) THEN <<>>
  ELSE LET ticks == durationTicks(events[k], ticksPerBeat)
       IN IF events[k].type = "rest"
          THEN eventMessages(header, events, k + 1, tick + ticks, ticksPerBeat)
          ELSE noteMessages(header, events[k].notes, 1, tick, ticks, velocityOf(header))
               \o eventMessages(header, events, k + 1, tick + ticks, ticksPerBeat)

\* the comparator with the order of a tie taken backwards
compareOrderReversed(a, b) ==
  IF a.tick # b.tick THEN a.tick - b.tick ELSE b.order - a.order

\* the comparator given to midiEvents.sort
compareEvents(a, b) ==
  IF a.tick # b.tick THEN a.tick - b.tick ELSE a.order - b.order

\* Array.prototype.sort is stable: an element goes after every element
\* already placed that does not compare greater.
insertSorted(sorted, e) ==
  LET n == Cardinality({k \in 1..Len(sorted) : compareEvents(sorted[k], e) <= 0})
  IN SubSeq(sorted, 1, n) \o <<e>> \o SubSeq(sorted, n + 1, Len(sorted))

RECURSIVE sortEvents(_, _, _)
sortEvents(midiEvents, k, sorted) ==
  IF k > Len(midiEvents) THEN sorted
  ELSE Only({sortEvents(midiEvents, k + 1, s) :
               s \in {insertSorted(sorted, midiEvents[k])}})

\* delta-encoding of the sorted messages
RECURSIVE trackBytes(_, _, _)
trackBytes(midiEvents, k, lastTick) ==
  IF k > Len(midiEvents) THEN <<>>
  ELSE writeVarLen(midiEvents[k].tick - lastTick) \o midiEvents[k].bytes
       \o trackBytes(midiEvents, k + 1, midiEvents[k].tick)

UInt32BE(n) ==
  <<LowBits(n \div 16777216, 8), LowBits(n \div 65536, 8),
    LowBits(n \div 256, 8), LowBits(n, 8)>>
UInt16BE(n) == <<LowBits(n \div 256, 8), LowBits(n, 8)>>

MThd == <<77, 84, 104, 100>>
MTrk == <<77, 84, 114, 107>>

\* the sorted message list createMidiFile serializes
midiEventsOf(header, events, ticksPerBeat) ==
  sortEvents(headMessages(header) \o eventMessages(header, events, 1, 0, ticksPerBeat),
             1, <<>>)

createMidiFile(header, events, ticksPerBeat) ==
  LET trackData == trackBytes(midiEventsOf(header, events, ticksPerBeat), 1, 0)
                   \o <<0, 255, 47, 0>>
  IN MThd \o UInt32BE(6) \o UInt16BE(0) \o UInt16BE(1) \o UInt16BE(ticksPerBeat)
     \o MTrk \o UInt32BE(Len(trackData)) \o trackData

scoreToMidiBuffer(score) == createMidiFile(score.header, score.events, TicksPerBeat)

\* ------------------------------------------------------------ MIDI reader
\* (data[offset] << 24 | data[offset+1] << 16 | data[offset+2] << 8 |
\*  data[offset+3]) >>> 0, for a first byte below 128; undefined reads as 0
readUInt32BE(data, offset) ==
  ByteOrZero(At(data, offset)) * 16777216 + ByteOrZero(At(data, offset + 1)) * 65536
  + ByteOrZero(At(data, offset + 2)) * 256 + ByteOrZero(At(data, offset + 3))

readUInt16BE(data, offset) ==
  ByteOrZero(At(data, offset)) * 256 + ByteOrZero(At(data, offset + 1))

\* data.subarray(begin, end): indices are clamped, negative ones count from
\* the end
RelIndex(x, len) == IF x < 0 THEN Max(len + x, 0) ELSE Min(x, len)
subarray(data, begin, end) ==
  LET b == RelIndex(begin, Len(data))
      e == RelIndex(end, Len(data))
  IN IF e > b THEN SubSeq(data, b + 1, e) ELSE <<>>

\* activeNotes, a Map from `${channel}-${note}` to {startTick, velocity}
NoteKey(channel, note) == <<channel, note>>
MapSet(map, key, value) ==
  [k \in DOMAIN map \cup {key} |-> IF k = key THEN value ELSE map[k]]
MapDelete(map, key) == [k \in DOMAIN map \ {key} |-> map[k]]
EmptyMap == [k \in {} |-> 0]

MidiNoteEvent(startTick, endTick, note, velocity) ==
  [startTick |-> startTick, endTick |-> endTick, note |-> note,
   velocity |-> velocity]

\* the state parseMidiTrack starts its walk in
trackStart(offset, tempoHint) ==
  [offset |-> offset, currentTick |-> 0, runningStatus |-> 0, program |-> 0,
   volume |-> Rat(8, 10), tempo |-> tempoHint, activeNotes |-> EmptyMap,
   noteEvents |-> <<>>]

\* a close that emits the note and leaves it pending
closeNoteKeeping(st, channel, note) ==
  LET key == NoteKey(channel, note)
  IN IF key \in DOMAIN st.activeNotes
     THEN [st EXCEPT
             !.noteEvents = Append(@, MidiNoteEvent(st.activeNotes[key].startTick,
                                     st.currentTick, note,
                                     st.activeNotes[key].velocity))]
     ELSE st

\* a note-off, or a note-on of velocity 0, for (channel, note) at st.currentTick
closeNote(st, channel, note) ==
  LET key == NoteKey(channel, note)
  IN IF key \in DOMAIN st.activeNotes
     THEN [st EXCEPT
             !.noteEvents = Append(@, MidiNoteEvent(st.activeNotes[key].startTick,
                                     st.currentTick, note,
                                     st.activeNotes[key].velocity)),
             !.activeNotes = MapDelete(@, key)]
     ELSE st

\* a note-on of non-zero velocity
openNote(st, channel, note, velocity) ==
  [st EXCEPT !.activeNotes =
     MapSet(@, NoteKey(channel, note),
            [startTick |-> st.currentTick, velocity |-> velocity])]

\* status === 0xff: a meta event
metaEvent(data, st) ==
  LET metaType == At(data, st.offset)
      lengthInfo == readVarLen(data, st.offset + 1)
      metaData == subarray(data, lengthInfo.next, lengthInfo.next + lengthInfo.value)
      next == [st EXCEPT !.offset = lengthInfo.next + lengthInfo.value]
  IN IF metaType = 81 /\ Len(metaData) = 3
     THEN [next EXCEPT !.tempo = metaData[1] * 65536 + metaData[2] * 256 + metaData[3]]
     ELSE next

\* a channel message with status byte `status`, its data at st.offset
channelEvent(data, st, status) ==
  LET eventType == AndF0(status)
      channel == And0F(status)
      data1 == At(data, st.offset)
      data2 == At(data, st.offset + 1)
  IN CASE eventType = 192 ->
            [st EXCEPT !.program = data1, !.offset = @ + 1]
       [] eventType = 176 ->
            [st EXCEPT !.offset = @ + 2,
                       !.volume = IF data1 = 7
                                  THEN IF data2 = Undef THEN NaN
                                       ELSE RatClamp(Rat(data2, 127), 0, 1)
                                  ELSE @]
       [] eventType = 144 ->
            IF data2 = 0
            THEN closeNote([st EXCEPT !.offset = @ + 2], channel, data1)
            ELSE openNote([st EXCEPT !.offset = @ + 2], channel, data1, data2)
       [] eventType = 128 ->
            closeNote([st EXCEPT !.offset = @ + 2], channel, data1)
       [] OTHER ->
            [st EXCEPT !.offset = @ + (IF eventType \in {192, 208} THEN 1 ELSE 2)]

\* the delta time and the status byte of an event: status = data[offset], or
\* the running status when that byte is below 0x80
statusStep(data, st, delta) ==
  LET byte == At(data, delta.next)
      running == byte # Undef /\ byte < 128       \* status < 0x80
  IN [st EXCEPT !.offset = IF running THEN delta.next ELSE delta.next + 1,
                !.currentTick = @ + delta.value,
                !.runningStatus = IF running THEN @ ELSE byte]

eventStep(data, st) ==
  LET status == st.runningStatus
  IN IF status = 255 THEN metaEvent(data, st)
     ELSE IF status \in {240, 247}
          THEN LET lengthInfo == readVarLen(data, st.offset)
               IN [st EXCEPT !.offset = lengthInfo.next + lengthInfo.value]
          ELSE channelEvent(data, st, status)

\* one iteration of the while (offset < trackEnd) loop: the delta time and
\* the status byte (or the running status), then the event
trackStep(data, st) ==
  Only({eventStep(data, s1) :
          s1 \in {statusStep(data, st, delta) : delta \in {readVarLen(data, st.offset)}}})

RECURSIVE trackLoop(_, _, _)
trackLoop(data, trackEnd, st) ==
  IF st.offset < trackEnd
  THEN Only({trackLoop(data, trackEnd, s) : s \in {trackStep(data, st)}})
  ELSE st

parseMidiTrack(data, offset, trackLength, tempoHint) ==
  LET st == trackLoop(data, offset + trackLength, trackStart(offset, tempoHint))
  IN [program |-> st.program, volume |-> st.volume, noteEvents |-> st.noteEvents,
      tempo |-> st.tempo]

\* the for loop over the declared tracks; a missing MTrk magic throws
RECURSIVE tracksLoop(_, _, _, _, _, _)
tracksLoop(data, numTracks, trackIndex, offset, tempo, tracks) ==
  IF trackIndex >= numTracks THEN [ok |-> TRUE, tempo |-> tempo, tracks |-> tracks]
  ELSE IF subarray(data, offset, offset + 4) # MTrk
       THEN [ok |-> FALSE, tempo |-> tempo, tracks |-> <<>>]
       ELSE LET trackLength == readUInt32BE(data, offset + 4)
            IN Only({tracksLoop(data, numTracks, trackIndex + 1,
                                offset + 8 + trackLength,
                                IF trackIndex = 0 THEN parsed.tempo ELSE tempo,
                                Append(tracks, [program |-> parsed.program,
                                                volume |-> parsed.volume,
                                                noteEvents |-> parsed.noteEvents])) :
                     parsed \in {parseMidiTrack(data, offset + 8, trackLength, tempo)}})

MidiFailure(message) ==
  [ok |-> FALSE, error |-> message, ticksPerBeat |-> 0, tempo |-> 0, tracks |-> <<>>]

\* parseMidiBuffer(midiBuffer): the parsed data, or (ok = FALSE) the error
\* thrown, in which case the caller receives nothing
parseMidiBuffer(data) ==
  IF subarray(data, 0, 4) # MThd THEN MidiFailure("invalid MIDI header")
  ELSE LET headerLength == readUInt32BE(data, 4)
           numTracks == readUInt16BE(data, 10)
           ticksPerBeat == readUInt16BE(data, 12)
           read == tracksLoop(data, numTracks, 0, 8 + headerLength, DefaultTempo, <<>>)
       IN IF numTracks < 1 THEN MidiFailure("invalid track count")
          ELSE IF ~read.ok THEN MidiFailure("invalid track header")
          ELSE [ok |-> TRUE, error |-> "", ticksPerBeat |-> ticksPerBeat,
                tempo |-> read.tempo, tracks |-> read.tracks]

\* ---------------------------------------------------- score reconstructor
\* quantizeBeats(ticks / ticksPerBeat) = Math.max(0.5, Math.round(beats * 2) / 2),
\* in 1/BeatUnit beats
quantizeWholeBeats(ticks, ticksPerBeat) ==      \* rounds to whole beats
  Max(BeatUnit, RoundDiv(ticks, ticksPerBeat) * BeatUnit)
quantizeBeats(ticks, ticksPerBeat) ==
  Max(BeatUnit \div 2, RoundDiv(2 * ticks, ticksPerBeat) * (BeatUnit \div 2))

TimePoint(startTick, endTick) == [startTick |-> startTick, endTick |-> endTick]

\* the keys of the Map `grouped`, in insertion order
RECURSIVE groupKeys(_, _, _)
groupKeys(noteEvents, k, keys) ==
  IF k > Len(noteEvents) THEN keys
  ELSE LET key == TimePoint(noteEvents[k].startTick, noteEvents[k].endTick)
       IN Only({groupKeys(noteEvents, k + 1, ks) :
                  ks \in {IF \E j \in 1..Len(keys) : keys[j] = key
                          THEN keys ELSE Append(keys, key)}})

\* grouped.get(key): the note events of one (startTick, endTick), in order
RECURSIVE groupOf(_, _, _)
groupOf(noteEvents, k, key) ==
  IF k > Len(noteEvents) THEN <<>>
  ELSE (IF TimePoint(noteEvents[k].startTick, noteEvents[k].endTick) = key
        THEN <<noteEvents[k]>> ELSE <<>>)
       \o groupOf(noteEvents, k + 1, key)

\* stable sort of a sequence by an integer field: .sort((a, b) => a.f - b.f)
insertByStart(sorted, e) ==
  LET n == Cardinality({k \in 1..Len(sorted) : sorted[k].startTick <= e.startTick})
  IN SubSeq(sorted, 1, n) \o <<e>> \o SubSeq(sorted, n + 1, Len(sorted))
insertByNote(sorted, e) ==
  LET n == Cardinality({k \in 1..Len(sorted) : sorted[k].note <= e.note})
  IN SubSeq(sorted, 1, n) \o <<e>> \o SubSeq(sorted, n + 1, Len(sorted))

RECURSIVE sortByStart(_, _, _)
sortByStart(seq, k, sorted) ==
  IF k > Len(seq) THEN sorted
  ELSE Only({sortByStart(seq, k + 1, s) : s \in {insertByStart(sorted, seq[k])}})

RECURSIVE sortByNote(_, _, _)
sortByNote(seq, k, sorted) ==
  IF k > Len(seq) THEN sorted
  ELSE Only({sortByNote(seq, k + 1, s) : s \in {insertByNote(sorted, seq[k])}})

\* a rest before every time point, whatever the gap
leadingRestAlways(acc, timePoint, ticksPerBeat) ==
  LET restBeats == quantizeBeats(Max(0, timePoint.startTick - acc.currentTick),
                                 ticksPerBeat)
  IN [events |-> Append(acc.events, ScoreEvent("rest", restBeats, <<>>)),
      totalBeats |-> acc.totalBeats + restBeats,
      currentTick |-> timePoint.startTick]

\* the leading rest of a time point: emitted when the group starts after the
\* cursor
leadingRest(acc, timePoint, ticksPerBeat) ==
  IF timePoint.startTick > acc.currentTick
  THEN LET restBeats == quantizeBeats(timePoint.startTick - acc.currentTick,
                                      ticksPerBeat)
       IN [events |-> Append(acc.events, ScoreEvent("rest", restBeats, <<>>)),
           totalBeats |-> acc.totalBeats + restBeats,
           currentTick |-> timePoint.startTick]
  ELSE acc

\* the note or chord event of a time point
groupEvent(acc, timePoint, noteEvents, header, ticksPerBeat) ==
  LET notes == sortByNote(groupOf(noteEvents, 1, timePoint), 1, <<>>)
      durationBeats == quantizeBeats(timePoint.endTick - timePoint.startTick,
                                     ticksPerBeat)
      noteSpecs == [k \in 1..Len(notes) |-> midiNoteToSpec(notes[k].note, header)]
  IN [events |-> Append(acc.events,
                   ScoreEvent(IF Len(noteSpecs) > 1 THEN "chord" ELSE "note",
                              durationBeats, noteSpecs)),
      totalBeats |-> acc.totalBeats + durationBeats,
      currentTick |-> timePoint.endTick]

\* for (const timePoint of timePoints)
RECURSIVE timePointsLoop(_, _, _, _, _, _)
timePointsLoop(timePoints, k, acc, noteEvents, header, ticksPerBeat) ==
  IF k > Len(timePoints) THEN acc
  ELSE Only({timePointsLoop(timePoints, k + 1, b, noteEvents, header, ticksPerBeat) :
               b \in {groupEvent(a, timePoints[k], noteEvents, header, ticksPerBeat) :
                        a \in {leadingRest(acc, timePoints[k], ticksPerBeat)}}})

buildScoreFromNoteEvents(noteEvents, header, ticksPerBeat) ==
  LET timePoints == sortByStart(groupKeys(noteEvents, 1, <<>>), 1, <<>>)
      acc == timePointsLoop(timePoints, 1,
               [events |-> <<>>, totalBeats |-> 0, currentTick |-> 0],
               noteEvents, header, ticksPerBeat)
  IN [ok |-> TRUE, error |-> "", header |-> header, events |-> acc.events,
      totalBeats |-> acc.totalBeats]

\* the header midiToScores gives every reconstructed Score
reconstructedHeader(tempo, track) ==
  [key |-> <<"C">>, bpm |-> Rat(Max(MinBpm, RoundDiv(60000000, tempo)), 1),
   volume |-> track.volume, octave |-> 4, program |-> track.program]

\* midiToScores on the data parseMidiBuffer returned
scoresOf(parsed) ==
  [k \in 1..Len(parsed.tracks) |->
     buildScoreFromNoteEvents(parsed.tracks[k].noteEvents,
                              reconstructedHeader(parsed.tempo, parsed.tracks[k]),
                              parsed.ticksPerBeat)]

\* midiToScores(midiBuffer): one Score per track; nothing when the reader throws
midiToScores(data) ==
  LET parsed == parseMidiBuffer(data)
  IN IF parsed.ok THEN scoresOf(parsed) ELSE <<>>

\* ---------------------------------------------------------------- printer
Repeat(c, n) == [k \in 1..n |-> c]

\* durationToTokens(duration), duration in 1/BeatUnit beats; epsilon = 0.0001
durationToTokens(duration) ==
  LET base == Max(1, FloorDiv(duration, BeatUnit))
      isInteger == Abs(duration - base * BeatUnit) * 10000 < BeatUnit
      isDotted == Abs(2 * duration - (2 * base + 1) * BeatUnit) * 10000 < 2 * BeatUnit
  IN IF isInteger THEN Repeat("~", Max(0, base - 1))
     ELSE IF isDotted THEN <<".">> \o Repeat("~", Max(0, base - 1))
     ELSE Repeat("~", Max(0, RoundDiv(duration, BeatUnit) - 1))

\* the decimal digits of a natural number
RECURSIVE NatText(_)
NatText(n) ==
  IF n < 10 THEN <<Digits[n + 1]>> ELSE NatText(n \div 10) \o <<Digits[(n % 10) + 1]>>

IntText(n) == IF n < 0 THEN <<"-">> \o NatText(-n) ELSE NatText(n)

\* the digits after the decimal point of rem/d, at most `left` of them; a
\* fraction that has more is kept as one element that names it
RECURSIVE FractionText(_, _, _)
FractionText(rem, d, left) ==
  IF rem = 0 THEN <<>>
  ELSE IF left = 0 THEN <<ToString(rem) \o "/" \o ToString(d)>>
  ELSE <<Digits[((10 * rem) \div d) + 1]>> \o FractionText((10 * rem) % d, d, left - 1)

\* `${number}` of a template string
NumberText(r) ==
  IF r.nan THEN <<"N", "a", "N">>
  ELSE IF r.n % r.d = 0 THEN IntText(r.n \div r.d)
  ELSE (IF r.n < 0 THEN <<"-">> ELSE <<>>)
       \o NatText(Abs(r.n) \div r.d) \o <<".">>
       \o FractionText(Abs(r.n) % r.d, r.d, 4)

noteToText(note) ==
  LET octaveMods ==
        (IF note.octaveShift > 0 THEN Repeat("+", note.octaveShift) ELSE <<>>)
        \o (IF note.octaveShift < 0 THEN Repeat("-", -note.octaveShift) ELSE <<>>)
      accidentalMods ==
        (IF note.accidental > 0 THEN Repeat("#", note.accidental) ELSE <<>>)
        \o (IF note.accidental < 0 THEN Repeat("b", -note.accidental) ELSE <<>>)
  IN IntText(note.degree) \o octaveMods \o accidentalMods

\* array.join(separator) over sequences of characters
RECURSIVE joinFrom(_, _, _)
joinFrom(parts, separator, k) ==
  IF k > Len(parts) THEN <<>>
  ELSE IF k = Len(parts) THEN parts[k]
  ELSE parts[k] \o separator \o joinFrom(parts, separator, k + 1)

join(parts, separator) == Only({joinFrom(p, separator, 1) : p \in {parts}})

eventToText(event) ==
  LET duration == durationToTokens(event.durationBeats)
  IN IF event.type = "rest" THEN <<"0">> \o duration
     ELSE IF event.type = "chord"
          THEN <<"(">>
               \o join([k \in 1..Len(event.notes) |-> noteToText(event.notes[k])], <<>>)
               \o <<")">> \o duration
          ELSE noteToText(event.notes[1]) \o duration

scoreToTextOf(sc) ==
  LET header == sc.header
      headerText ==
        <<"[", "K", "e", "y", "=">> \o header.key
        \o <<" ", "I", "n", "s", "t", "r", "=">> \o IntText(header.program)
        \o <<" ", "B", "P", "M", "=">> \o NumberText(header.bpm)
        \o <<" ", "V", "o", "l", "=">> \o NumberText(header.volume)
        \o <<" ", "O", "c", "t", "=">> \o IntText(header.octave) \o <<"]">>
      body == join([k \in 1..Len(sc.events) |-> eventToText(sc.events[k])], <<" ">>)
  IN headerText \o <<"\n">> \o body

scoreToText(score) == Only({scoreToTextOf(sc) : sc \in {score}})

TrackMarker == <<"/", "/", " ", "T", "r", "a", "c", "k", " ">>

\* the marked blocks with the tracks counted from 0
markedFromZero(scoreList) ==
  join([k \in 1..Len(scoreList) |->
          TrackMarker \o IntText(k - 1) \o <<"\n">> \o scoreToText(scoreList[k])],
       <<"\n", "\n">>)

\* scores.map((score, index) => `// Track ${index + 1}\n...`).join("\n\n")
marked(scoreList) ==
  join([k \in 1..Len(scoreList) |->
          TrackMarker \o IntText(k) \o <<"\n">> \o scoreToText(scoreList[k])],
       <<"\n", "\n">>)

\* midiToText(midiBuffer); "thrown" when the reader throws
midiToText(data) ==
  Only({ IF ~parsed.ok THEN <<"thrown">>
         ELSE Only({ IF Len(scoreList) <= 1 THEN scoreToText(scoreList[1])
                     ELSE marked(scoreList) :
                     scoreList \in {scoresOf(parsed)} }) :
         parsed \in {parseMidiBuffer(data)} })

\* midiToTexts(midiBuffer).combinedText
midiToTexts(data) ==
  Only({ IF ~parsed.ok THEN <<"thrown">>
         ELSE Only({ IF Len(tracks) <= 1 THEN tracks[1].text
                     ELSE join([k \in 1..Len(tracks) |->
                                  TrackMarker \o IntText(tracks[k].index + 1)
                                  \o <<"\n">> \o tracks[k].text],
                               <<"\n", "\n">>) :
                     tracks \in {[k \in 1..Len(scoresOf(parsed)) |->
                                   [index |-> k - 1,
                                    text |-> scoreToText(scoresOf(parsed)[k])]]} }) :
         parsed \in {parseMidiBuffer(data)} })

\* ================================================================== state
VARIABLES
  pc,        \* which conversion has been applied last
  input,     \* the notation text given to parseScore
  score,     \* what parseScore returned
  midi,      \* the bytes of a MIDI file
  midiData,  \* what parseMidiBuffer returned
  scores,    \* what midiToScores returned
  mapIn,     \* the arguments of degreeToMidi
  pitch,     \* what degreeToMidi returned
  noteOut,   \* what midiNoteToSpec returned
  vlq,       \* a variable-length quantity: value, bytes written, value read
  text,      \* what midiToText and midiToTexts returned
  track      \* the locals of parseMidiTrack during its walk over a track

vars == <<pc, input, score, midi, midiData, scores, mapIn, pitch, noteOut, vlq,
          text, track>>

\* values of the variables a conversion has not produced yet
NoInput == [bracket |-> FALSE, items |-> <<>>, body |-> <<>>]
NoScore == [ok |-> FALSE, error |-> "none", header |-> DEFAULT_HEADER,
            events |-> <<>>, totalBeats |-> 0]
NoMidiData == MidiFailure("none")
NoMapIn == [degree |-> 1, octaveShift |-> 0, accidental |-> 0,
            header |-> DEFAULT_HEADER]
NoNote == NoteSpec(1, 0, 0)
NoVlq == [value |-> 0, bytes |-> <<>>, read |-> [value |-> 0, next |-> 0]]
NoText == [text |-> <<>>, combinedText |-> <<>>]
NoTrack == [trackEnd |-> 0, st |-> trackStart(0, DefaultTempo)]

\* ------------------------------------------------------- notation -> Score
\* the characters a body is typed from; "x" is a character the grammar
\* does not know
Alphabet == {"0", "1", "5", "(", ")", "+", "-", "#", "b", ".", "~", " ", "x"}

InitParse ==
  /\ text = NoText /\ track = NoTrack
  /\ pc = "text"
  /\ input = NoInput /\ score = NoScore /\ midi = <<>> /\ midiData = NoMidiData
  /\ scores = <<>> /\ mapIn = NoMapIn /\ pitch = 0 /\ noteOut = NoNote
  /\ vlq = NoVlq

TypeChar ==
  /\ pc = "text"
  /\ Len(input.body) < MaxLen
  /\ \E c \in Alphabet : input' = [input EXCEPT !.body = Append(@, c)]
  /\ UNCHANGED <<text, track, pc, score, midi, midiData, scores, mapIn, pitch, noteOut, vlq>>

ParseScore ==
  /\ pc = "text"
  /\ score' = parseScore(input)
  /\ pc' = "parsed"
  /\ UNCHANGED <<text, track, input, midi, midiData, scores, mapIn, pitch, noteOut, vlq>>

\* ------------------------------------------------------------ the header
HeaderKeys == {<<"K", "e", "y">>, <<"B", "P", "M">>, <<"v", "o", "l">>,
               <<"O", "c", "t">>, <<"I", "n", "s", "t", "r">>,
               <<"T", "e", "m", "p", "o">>}
HeaderValues == {<<"0">>, <<"1">>, <<"-", "5">>, <<"0", ".", "5">>,
                 <<"2", "0", "0">>, <<"6", "4">>, <<"a", "b", "c">>,
                 <<"p", "i", "a", "n", "o">>, <<"d">>, <<"H">>}

InitHeader ==
  /\ text = NoText /\ track = NoTrack
  /\ pc = "text"
  /\ input = [bracket |-> TRUE, items |-> <<>>, body |-> <<"1">>]
  /\ score = NoScore /\ midi = <<>> /\ midiData = NoMidiData
  /\ scores = <<>> /\ mapIn = NoMapIn /\ pitch = 0 /\ noteOut = NoNote
  /\ vlq = NoVlq

\* a key=value pair is typed into the header block
AddField ==
  /\ pc = "text" /\ input.bracket
  /\ Len(input.items) < MaxFields
  /\ \E k \in HeaderKeys, v \in HeaderValues :
       input' = [input EXCEPT !.items = Append(@, [key |-> k, value |-> v])]
  /\ UNCHANGED <<text, track, pc, score, midi, midiData, scores, mapIn, pitch, noteOut, vlq>>

\* a bare token is typed into the header block
AddToken ==
  /\ pc = "text" /\ input.bracket
  /\ Len(input.items) < MaxFields
  /\ \E v \in HeaderValues :
       input' = [input EXCEPT !.items = Append(@, [key |-> <<>>, value |-> v])]
  /\ UNCHANGED <<text, track, pc, score, midi, midiData, scores, mapIn, pitch, noteOut, vlq>>

\* ------------------------------------------- notation -> MIDI -> notation
\* well-formed tokens a body is assembled from, each followed by a blank
Tokens == { <<"1">>, <<"0">>, <<"5">>, <<"1", ".">>, <<"0", "~">>,
            <<"3", "#">>, <<"7", "+", "+", "+", "+", "+", "+">>,
            <<"(", "1", "5", ")">>, <<"(", "5", "1", ")", "~">>,
            <<"(", "1", "1", ")">>, <<"(", "1", ")">>, <<"1", ".", ".">> }

\* the headers of the texts sent through the pipeline
PipelineHeaders ==
  { <<>>,
    <<[key |-> <<"K", "e", "y">>, value |-> <<"D">>]>>,
    <<[key |-> <<"O", "c", "t">>, value |-> <<"5">>],
      [key |-> <<"B", "P", "M">>, value |-> <<"9", "0">>]>> }

TokenCount(body) == Cardinality({k \in 1..Len(body) : body[k] = " "})

InitPipeline ==
  /\ text = NoText /\ track = NoTrack
  /\ pc = "text"
  /\ \E h \in PipelineHeaders :
       input = [bracket |-> h # <<>>, items |-> h, body |-> <<>>]
  /\ score = NoScore /\ midi = <<>> /\ midiData = NoMidiData
  /\ scores = <<>> /\ mapIn = NoMapIn /\ pitch = 0 /\ noteOut = NoNote
  /\ vlq = NoVlq

AppendToken ==
  /\ pc = "text"
  /\ TokenCount(input.body) < MaxTokens
  /\ \E t \in Tokens : input' = [input EXCEPT !.body = @ \o t \o <<" ">>]
  /\ UNCHANGED <<text, track, pc, score, midi, midiData, scores, mapIn, pitch, noteOut, vlq>>

ScoreToMidiBuffer ==
  /\ pc = "parsed" /\ score.ok
  /\ midi' = scoreToMidiBuffer(score)
  /\ pc' = "midi"
  /\ UNCHANGED <<text, track, input, score, midiData, scores, mapIn, pitch, noteOut, vlq>>

\* the end of the file is lost: the last byte is cut off
Truncate ==
  /\ pc = "midi"
  /\ Len(scoreToMidiBuffer(score)) - Len(midi) < MaxCut
  /\ midi' = SubSeq(midi, 1, Len(midi) - 1)
  /\ UNCHANGED <<text, track, pc, input, score, midiData, scores, mapIn, pitch, noteOut, vlq>>

ParseMidiBuffer ==
  /\ pc = "midi"
  /\ midiData' = parseMidiBuffer(midi)
  /\ pc' = "read"
  /\ UNCHANGED <<text, track, input, score, midi, scores, mapIn, pitch, noteOut, vlq>>

\* midiToScores, after its call of parseMidiBuffer
BuildScores ==
  /\ pc = "read" /\ midiData.ok
  /\ scores' = scoresOf(midiData)
  /\ pc' = "rebuilt"
  /\ UNCHANGED <<text, track, input, score, midi, midiData, mapIn, pitch, noteOut, vlq>>

\* --------------------------------------------------- note events -> Score
NoteStarts == {0, 240, 480, 500}
NoteLengths == {100, 480, 720}
NotePitches == {60, 64}

InitBuild ==
  /\ text = NoText /\ track = NoTrack
  /\ pc = "read"
  /\ midiData = [ok |-> TRUE, error |-> "", ticksPerBeat |-> TicksPerBeat,
                 tempo |-> DefaultTempo,
                 tracks |-> <<[program |-> 0, volume |-> Rat(8, 10),
                               noteEvents |-> <<>>]>>]
  /\ input = NoInput /\ score = NoScore /\ midi = <<>>
  /\ scores = <<>> /\ mapIn = NoMapIn /\ pitch = 0 /\ noteOut = NoNote
  /\ vlq = NoVlq

AddNoteEvent ==
  /\ pc = "read" /\ midi = <<>>
  /\ Len(midiData.tracks[1].noteEvents) < MaxNotes
  /\ \E s \in NoteStarts, l \in NoteLengths, n \in NotePitches :
       midiData' = [midiData EXCEPT !.tracks[1].noteEvents =
                      Append(@, MidiNoteEvent(s, s + l, n, 100))]
  /\ UNCHANGED <<text, track, pc, input, score, midi, scores, mapIn, pitch, noteOut, vlq>>

\* ------------------------------------------------------------ pitch mapper
Octaves == (4 - MaxOctaveDelta)..(4 + MaxOctaveDelta)

InitPitch ==
  /\ text = NoText /\ track = NoTrack
  /\ pc = "note"
  /\ \E d \in 1..7, s \in (-MaxShift)..MaxShift,
        a \in (-MaxAccidental)..MaxAccidental, k \in KeyNames, o \in Octaves :
       mapIn = [degree |-> d, octaveShift |-> s, accidental |-> a,
                header |-> [DEFAULT_HEADER EXCEPT !.key = k, !.octave = o]]
  /\ input = NoInput /\ score = NoScore /\ midi = <<>> /\ midiData = NoMidiData
  /\ scores = <<>> /\ pitch = 0 /\ noteOut = NoNote /\ vlq = NoVlq

DegreeToMidi ==
  /\ pc = "note"
  /\ pitch' = degreeToMidi(mapIn.degree, mapIn.octaveShift, mapIn.accidental,
                           mapIn.header)
  /\ pc' = "pitch"
  /\ UNCHANGED <<text, track, input, score, midi, midiData, scores, mapIn, noteOut, vlq>>

MidiNoteToSpec ==
  /\ pc = "pitch"
  /\ noteOut' = midiNoteToSpec(pitch, mapIn.header)
  /\ pc' = "spelled"
  /\ UNCHANGED <<text, track, input, score, midi, midiData, scores, mapIn, pitch, vlq>>

\* ------------------------------------------------- pitch mapper, reversed
MidiPitches == 0..127

InitInverse ==
  /\ text = NoText /\ track = NoTrack
  /\ pc = "heard"
  /\ \E p \in MidiPitches, k \in KeyNames, o \in Octaves :
       /\ pitch = p
       /\ mapIn = [NoMapIn EXCEPT !.header =
                     [DEFAULT_HEADER EXCEPT !.key = k, !.octave = o]]
  /\ input = NoInput /\ score = NoScore /\ midi = <<>> /\ midiData = NoMidiData
  /\ scores = <<>> /\ noteOut = NoNote /\ vlq = NoVlq

SpellPitch ==
  /\ pc = "heard"
  /\ noteOut' = midiNoteToSpec(pitch, mapIn.header)
  /\ pc' = "respelled"
  /\ UNCHANGED <<input, score, midi, midiData, scores, mapIn, pitch, vlq, text,
                 track>>

PitchOfSpelling ==
  /\ pc = "respelled"
  /\ mapIn' = [mapIn EXCEPT !.degree = noteOut.degree,
                            !.octaveShift = noteOut.octaveShift,
                            !.accidental = noteOut.accidental]
  /\ pitch' = degreeToMidi(noteOut.degree, noteOut.octaveShift,
                           noteOut.accidental, mapIn.header)
  /\ pc' = "sounded"
  /\ UNCHANGED <<input, score, midi, midiData, scores, noteOut, vlq, text, track>>

\* ------------------------------------------------ variable-length quantity
\* the 7-bit groups a value is assembled from
GroupValues == {0, 1, 2, 63, 64, 127}

InitVarLen ==
  /\ text = NoText /\ track = NoTrack
  /\ pc = "value"
  /\ vlq = NoVlq
  /\ input = NoInput /\ score = NoScore /\ midi = <<>> /\ midiData = NoMidiData
  /\ scores = <<>> /\ mapIn = NoMapIn /\ pitch = 0 /\ noteOut = NoNote

PushGroup ==
  /\ pc = "value"
  /\ vlq.value < Pow(128, MaxGroups - 1)
  /\ \E g \in GroupValues : vlq' = [vlq EXCEPT !.value = @ * 128 + g]
  /\ UNCHANGED <<text, track, pc, input, score, midi, midiData, scores, mapIn, pitch, noteOut>>

WriteVarLen ==
  /\ pc = "value"
  /\ vlq' = [vlq EXCEPT !.bytes = writeVarLen(vlq.value)]
  /\ pc' = "written"
  /\ UNCHANGED <<text, track, input, score, midi, midiData, scores, mapIn, pitch, noteOut>>

ReadVarLen ==
  /\ pc = "written"
  /\ vlq' = [vlq EXCEPT !.read = readVarLen(vlq.bytes, 0)]
  /\ pc' = "decoded"
  /\ UNCHANGED <<text, track, input, score, midi, midiData, scores, mapIn, pitch, noteOut>>

\* ------------------------------------------------------ duration suffixes
\* the event tokens a suffix is typed after
SuffixHeads == {<<"0">>, <<"1">>, <<"5", "+">>, <<"(", "1", "5", ")">>}

\* "[Key=C Instr=0 BPM=100]\n1 1 (135)~ 0 5 5 (246+)."
ExampleText ==
  [bracket |-> TRUE,
   items |-> <<[key |-> <<"K", "e", "y">>, value |-> <<"C">>],
               [key |-> <<"I", "n", "s", "t", "r">>, value |-> <<"0">>],
               [key |-> <<"B", "P", "M">>, value |-> <<"1", "0", "0">>]>>,
   body |-> <<"\n", "1", " ", "1", " ", "(", "1", "3", "5", ")", "~", " ",
              "0", " ", "5", " ", "5", " ", "(", "2", "4", "6", "+", ")", ".">>]

InitDuration ==
  /\ text = NoText /\ track = NoTrack
  /\ pc = "text"
  /\ \/ \E head \in SuffixHeads : input = [NoInput EXCEPT !.body = head]
     \/ input = ExampleText
  /\ score = NoScore /\ midi = <<>> /\ midiData = NoMidiData
  /\ scores = <<>> /\ mapIn = NoMapIn /\ pitch = 0 /\ noteOut = NoNote
  /\ vlq = NoVlq

\* the characters after the head of the text
SuffixOf(body) ==
  LET start == CHOOSE k \in 1..(Len(body) + 1) :
                 /\ \A j \in k..Len(body) : body[j] \in {".", "~"}
                 /\ k > 1 => body[k - 1] \notin {".", "~"}
  IN SubSeq(body, start, Len(body))

TypeSuffix ==
  /\ pc = "text"
  /\ input # ExampleText
  /\ Len(SuffixOf(input.body)) < MaxLen
  /\ \E c \in {".", "~"} : input' = [input EXCEPT !.body = Append(@, c)]
  /\ UNCHANGED <<text, track, pc, score, midi, midiData, scores, mapIn, pitch, noteOut, vlq>>

\* ----------------------------------------------------------- MIDI -> text
\* the bodies of the track chunks a file is made of
EndOfTrack == <<0, 255, 47, 0>>
TrackBodies ==
  { EndOfTrack,
    <<0, 144, 60, 100, 131, 96, 128, 60, 0>> \o EndOfTrack,
    <<0, 192, 5, 0, 176, 7, 127, 131, 96, 144, 62, 80, 0, 144, 65, 80,
      135, 64, 128, 62, 0, 0, 128, 65, 0>> \o EndOfTrack,
    <<0, 255, 81, 3, 9, 39, 192, 0, 144, 72, 90, 129, 112, 144, 72, 0>>
      \o EndOfTrack }

TrackChunk(body) == MTrk \o UInt32BE(Len(body)) \o body

InitTracks ==
  /\ text = NoText /\ track = NoTrack
  /\ pc = "midi"
  /\ \E body \in TrackBodies :
       midi = MThd \o UInt32BE(6) \o UInt16BE(1) \o UInt16BE(1)
              \o UInt16BE(TicksPerBeat) \o TrackChunk(body)
  /\ input = NoInput /\ score = NoScore /\ midiData = NoMidiData
  /\ scores = <<>> /\ mapIn = NoMapIn /\ pitch = 0 /\ noteOut = NoNote
  /\ vlq = NoVlq

\* one more track: the declared track count grows and the chunk is appended
AddTrack ==
  /\ pc = "midi"
  /\ readUInt16BE(midi, 10) < MaxTracks
  /\ \E body \in TrackBodies :
       midi' = [midi EXCEPT ![12] = @ + 1] \o TrackChunk(body)
  /\ UNCHANGED <<pc, input, score, midiData, scores, mapIn, pitch, noteOut, vlq,
                 text, track>>

MidiToText ==
  /\ pc = "midi"
  /\ text' = [text EXCEPT !.text = midiToText(midi)]
  /\ scores' = midiToScores(midi)
  /\ pc' = "text"
  /\ UNCHANGED <<input, score, midi, midiData, mapIn, pitch, noteOut, vlq, track>>

MidiToTexts ==
  /\ pc = "midi"
  /\ text' = [text EXCEPT !.combinedText = midiToTexts(midi)]
  /\ scores' = midiToScores(midi)
  /\ pc' = "texts"
  /\ UNCHANGED <<input, score, midi, midiData, mapIn, pitch, noteOut, vlq, track>>

\* ------------------------------------------------- the walk over a track
\* the events a track is made of, each with its delta time; the last but one
\* is data bytes alone, read under the running status
TrackDeltas == {0, 96}
TrackMessages ==
  { <<144, 60, 100>>, <<144, 60, 0>>, <<128, 60, 64>>, <<145, 60, 80>>,
    <<129, 60, 0>>, <<60, 0>>, <<192, 5>> }

InitWalk ==
  /\ text = NoText /\ track = NoTrack
  /\ pc = "bytes"
  /\ input = NoInput /\ score = NoScore /\ midi = <<>> /\ midiData = NoMidiData
  /\ scores = <<>> /\ mapIn = NoMapIn /\ pitch = 0 /\ noteOut = NoNote
  /\ vlq = NoVlq

AppendMessage ==
  /\ pc = "bytes"
  /\ \E delta \in TrackDeltas, message \in TrackMessages :
       /\ Len(midi) + 1 + Len(message) <= MaxBytes
       /\ midi' = midi \o <<delta>> \o message
  /\ UNCHANGED <<pc, input, score, midiData, scores, mapIn, pitch, noteOut, vlq,
                 text, track>>

\* parseMidiTrack(data, 0, data.length) up to its loop
StartWalk ==
  /\ pc = "bytes"
  /\ track' = [trackEnd |-> Len(midi), st |-> trackStart(0, DefaultTempo)]
  /\ pc' = "walk"
  /\ UNCHANGED <<input, score, midi, midiData, scores, mapIn, pitch, noteOut, vlq,
                 text>>

\* one iteration of while (offset < trackEnd)
WalkStep ==
  /\ pc = "walk"
  /\ track.st.offset < track.trackEnd
  /\ track' = [track EXCEPT !.st = trackStep(midi, track.st)]
  /\ UNCHANGED <<pc, input, score, midi, midiData, scores, mapIn, pitch, noteOut,
                 vlq, text>>

\* the loop is left and the track returned
FinishWalk ==
  /\ pc = "walk"
  /\ ~(track.st.offset < track.trackEnd)
  /\ midiData' = [ok |-> TRUE, error |-> "", ticksPerBeat |-> TicksPerBeat,
                  tempo |-> track.st.tempo,
                  tracks |-> <<[program |-> track.st.program,
                                volume |-> track.st.volume,
                                noteEvents |-> track.st.noteEvents]>>]
  /\ pc' = "walked"
  /\ UNCHANGED <<input, score, midi, scores, mapIn, pitch, noteOut, vlq, text,
                 track>>

\* ------------------------------------------- the walk over declared lengths
\* events that declare a length: a meta event whose five-byte quantity is
\* -8 in 32 bits, one whose quantity is -1, a meta event of 127 bytes, a
\* meta event of 1 byte, a system-exclusive event of 2 bytes; and a note-on
LengthEvents ==
  { <<0, 255, 1, 143, 255, 255, 255, 120>>,
    <<0, 255, 1, 255, 255, 255, 255, 127>>,
    <<0, 255, 1, 127>>,
    <<0, 255, 1, 1, 65>>,
    <<0, 240, 2, 1, 2>>,
    <<0, 144, 60, 100>> }

AppendLengthEvent ==
  /\ pc = "bytes"
  /\ \E event \in LengthEvents :
       /\ Len(midi) + Len(event) <= MaxBytes
       /\ midi' = midi \o event
  /\ UNCHANGED <<pc, input, score, midiData, scores, mapIn, pitch, noteOut, vlq,
                 text, track>>

\* parseMidiTrack(data, 0, trackLength) up to its loop
StartWalkDeclared ==
  /\ pc = "bytes"
  /\ \E trackLength \in 0..(Len(midi) + MaxOverrun) :
       track' = [trackEnd |-> trackLength, st |-> trackStart(0, DefaultTempo)]
  /\ pc' = "walk"
  /\ UNCHANGED <<input, score, midi, midiData, scores, mapIn, pitch, noteOut, vlq,
                 text>>

\* the first half of an iteration: the delta time and the status byte
WalkStatus ==
  /\ pc = "walk"
  /\ track.st.offset < track.trackEnd
  /\ track' = [track EXCEPT
                 !.st = statusStep(midi, @, readVarLen(midi, track.st.offset))]
  /\ pc' = "event"
  /\ UNCHANGED <<input, score, midi, midiData, scores, mapIn, pitch, noteOut, vlq,
                 text>>

\* the second half: the event of that status, up to `continue`
WalkEvent ==
  /\ pc = "event"
  /\ track' = [track EXCEPT !.st = eventStep(midi, @)]
  /\ pc' = "walk"
  /\ UNCHANGED <<input, score, midi, midiData, scores, mapIn, pitch, noteOut, vlq,
                 text>>

\* --------------------------------------------------------- specifications
NextParse == TypeChar \/ ParseScore
SpecParse == InitParse /\ [][NextParse]_vars

NextHeader == AddField \/ AddToken \/ ParseScore
SpecHeader == InitHeader /\ [][NextHeader]_vars

NextPipeline ==
  AppendToken \/ ParseScore \/ ScoreToMidiBuffer \/ ParseMidiBuffer \/ BuildScores
SpecPipeline == InitPipeline /\ [][NextPipeline]_vars

NextTruncated ==
  AppendToken \/ ParseScore \/ ScoreToMidiBuffer \/ Truncate \/ ParseMidiBuffer
SpecTruncated == InitPipeline /\ [][NextTruncated]_vars

NextBuild == AddNoteEvent \/ BuildScores
SpecBuild == InitBuild /\ [][NextBuild]_vars

\* the two producers of a Score: the parser and the reconstructor
InitScore == InitParse \/ InitBuild
NextScore == NextParse \/ NextBuild
SpecScore == InitScore /\ [][NextScore]_vars

NextPitch == DegreeToMidi \/ MidiNoteToSpec
SpecPitch == InitPitch /\ [][NextPitch]_vars

NextVarLen == PushGroup \/ WriteVarLen \/ ReadVarLen
SpecVarLen == InitVarLen /\ [][NextVarLen]_vars

NextDuration == TypeSuffix \/ ParseScore
SpecDuration == InitDuration /\ [][NextDuration]_vars

NextTracks == AddTrack \/ MidiToText \/ MidiToTexts
SpecTracks == InitTracks /\ [][NextTracks]_vars

NextWalk == AppendMessage \/ StartWalk \/ WalkStep \/ FinishWalk
SpecWalk == InitWalk /\ [][NextWalk]_vars

\* a header, parsed, written and read back
NextTempo ==
  AddField \/ AddToken \/ ParseScore \/ ScoreToMidiBuffer \/ ParseMidiBuffer
SpecTempo == InitHeader /\ [][NextTempo]_vars

NextInverse == SpellPitch \/ PitchOfSpelling
SpecInverse == InitInverse /\ [][NextInverse]_vars

\* the walk runs on: an iteration that can be taken is taken, and the loop
\* is left when its condition fails
NextLengths ==
  AppendLengthEvent \/ StartWalkDeclared \/ WalkStatus \/ WalkEvent \/ FinishWalk
SpecLengths ==
  /\ InitWalk /\ [][NextLengths]_vars
  /\ WF_vars(WalkStatus) /\ WF_vars(WalkEvent) /\ WF_vars(FinishWalk)

Init ==
  InitParse \/ InitHeader \/ InitPipeline \/ InitBuild \/ InitPitch \/ InitVarLen
  \/ InitDuration \/ InitTracks \/ InitWalk \/ InitInverse
Next ==
  NextParse \/ NextHeader \/ NextPipeline \/ NextTruncated \/ NextBuild
  \/ NextPitch \/ NextVarLen \/ NextDuration \/ NextTracks
  \/ NextWalk \/ NextInverse \/ NextLengths
Spec == Init /\ [][Next]_vars

\* ================================================================= claims
RECURSIVE SumBeats(_, _)
SumBeats(events, k) ==
  IF k > Len(events) THEN 0 ELSE events[k].durationBeats + SumBeats(events, k + 1)

HasType(events, type) == \E k \in 1..Len(events) : events[k].type = type

\* C1: totalBeats of every Score parseScore returns, and of every Score the
\* reconstructor returns, is the sum of durationBeats over its events, rests
\* included.
C1_TotalBeatsIsSum ==
  /\ (pc = "parsed" /\ score.ok) => score.totalBeats = SumBeats(score.events, 1)
  /\ pc = "rebuilt" =>
       \A k \in 1..Len(scores) : scores[k].totalBeats = SumBeats(scores[k].events, 1)

\* a parsed text of three events or more, one of them a rest, one of them of
\* a duration other than one beat
C1_Witness ==
  /\ pc = "parsed" /\ score.ok
  /\ Len(score.events) >= 3
  /\ HasType(score.events, "rest")
  /\ \E k \in 1..Len(score.events) : score.events[k].durationBeats # BeatUnit
  /\ score.totalBeats > 3 * BeatUnit

\* ------------------------------------------------------------ round trip
HalfBeatDurations(events) ==
  \A k \in 1..Len(events) : events[k].durationBeats % (BeatUnit \div 2) = 0
NoAccidentals(events) ==
  \A k \in 1..Len(events) :
    \A j \in 1..Len(events[k].notes) : events[k].notes[j].accidental = 0

\* the pitch of a note before degreeToMidi clamps it
UnclampedPitch(note, header) ==
  12 * (header.octave + 1) + KeyOffsetOrZero(header) + ScaleOffset(note.degree)
  + note.accidental + 12 * note.octaveShift

\* C2, as claimed: a text of whole- and half-beat durations and no accidentals
\* comes back from notation -> MIDI -> notation with the same event sequence.
C2_RoundTripAsClaimed ==
  (pc = "rebuilt"
   /\ HalfBeatDurations(score.events) /\ NoAccidentals(score.events))
  => (Len(scores) = 1 /\ scores[1].events = score.events)

\* rests are single and followed by a note or a chord
RestsAreGaps(events) ==
  \A k \in 1..Len(events) :
    events[k].type = "rest" => (k < Len(events) /\ events[k + 1].type # "rest")
\* every chord lists two or more pitches, in strictly ascending order
ChordsAscend(events, header) ==
  \A k \in 1..Len(events) :
    events[k].type = "chord" =>
      /\ Len(events[k].notes) >= 2
      /\ \A j \in 1..(Len(events[k].notes) - 1) :
           UnclampedPitch(events[k].notes[j], header)
             < UnclampedPitch(events[k].notes[j + 1], header)
PitchesInRange(events, header) ==
  \A k \in 1..Len(events) :
    \A j \in 1..Len(events[k].notes) :
      UnclampedPitch(events[k].notes[j], header) \in 0..127
\* the header midiToScores gives the Score: key C, octave 4
TonicIsC4(header) == KeyOffsetOrZero(header) = 0 /\ header.octave = 4

RoundTripCase ==
  /\ pc = "rebuilt"
  /\ HalfBeatDurations(score.events) /\ NoAccidentals(score.events)
  /\ TonicIsC4(score.header)
  /\ PitchesInRange(score.events, score.header)
  /\ ChordsAscend(score.events, score.header)
  /\ RestsAreGaps(score.events)

\* C2, amended: the round trip returns the same event sequence for a text in
\* key C, octave 4, of whole- and half-beat durations and no accidentals,
\* whose pitches lie in 0..127, whose chords list two or more pitches in
\* ascending order and whose rests are single and followed by a note or chord.
C2_RoundTrip ==
  RoundTripCase => (Len(scores) = 1 /\ scores[1].events = score.events)

C2_Witness ==
  /\ RoundTripCase
  /\ Len(score.events) = 3
  /\ HasType(score.events, "rest") /\ HasType(score.events, "chord")
  /\ \E k \in 1..3 : score.events[k].durationBeats = BeatUnit + BeatUnit \div 2
  /\ scores[1].events = score.events

\* ------------------------------------------------------- write, then read
RECURSIVE StartTickOf(_, _)
StartTickOf(events, k) ==
  IF k <= 1 THEN 0
  ELSE StartTickOf(events, k - 1)
       + RoundDiv(events[k - 1].durationBeats * TicksPerBeat, BeatUnit)

EventTicks(events, k) == RoundDiv(events[k].durationBeats * TicksPerBeat, BeatUnit)

\* the notes a Score sounds: (startTick, endTick, pitch) per note of an event
SoundingNotes(sc) ==
  UNION { { <<StartTickOf(sc.events, k),
              StartTickOf(sc.events, k) + EventTicks(sc.events, k),
              clamp(UnclampedPitch(sc.events[k].notes[j], sc.header), 0, 127)>> :
            j \in 1..Len(sc.events[k].notes) } :
          k \in {e \in 1..Len(sc.events) : sc.events[e].type # "rest"} }

NoteCount(events) ==
  SumBeats([k \in 1..Len(events) |-> [durationBeats |-> Len(events[k].notes)]], 1)

\* C3: reading back the file written for a parsed Score yields one track
\* whose note events are exactly one per distinct pitch of each note or chord
\* event, from the event's start tick to its start tick plus its duration.
C3_WriteThenRead ==
  pc = "read" =>
    /\ midiData.ok /\ Len(midiData.tracks) = 1
    /\ LET noteEvents == midiData.tracks[1].noteEvents
       IN /\ { <<noteEvents[k].startTick, noteEvents[k].endTick, noteEvents[k].note>> :
               k \in 1..Len(noteEvents) } = SoundingNotes(score)
          /\ Len(noteEvents) = Cardinality(SoundingNotes(score))

\* a Score with a chord that holds a pitch twice, next to an event of the
\* same pitch, and a rest
C3_Witness ==
  /\ pc = "read"
  /\ HasType(score.events, "rest")
  /\ \E k \in 1..(Len(score.events) - 1) :
       /\ score.events[k].type = "chord" /\ Len(score.events[k].notes) = 2
       /\ score.events[k].notes[1] = score.events[k].notes[2]
       /\ score.events[k + 1].type = "note"
       /\ score.events[k + 1].notes[1] = score.events[k].notes[1]
  /\ Len(midiData.tracks[1].noteEvents) = 2

\* ------------------------------------------------------------ pitch mapper
MapInPitch == UnclampedPitch(mapIn, mapIn.header)

\* C4, as claimed: for every degree, octaveShift, accidental and header the
\* note spelled back from degreeToMidi's pitch has |accidental| no larger
\* than the original's.
C4_AccidentalAsClaimed ==
  pc = "spelled" => Abs(noteOut.accidental) <= Abs(mapIn.accidental)

\* C4, amended: that holds whenever the pitch degreeToMidi computes lies in
\* 0..127, so that it is not clamped.
C4_AccidentalNoLarger ==
  (pc = "spelled" /\ MapInPitch \in 0..127)
  => Abs(noteOut.accidental) <= Abs(mapIn.accidental)

\* an unclamped pitch whose spelling is shorter than the one given
C4_Witness ==
  /\ pc = "spelled" /\ MapInPitch \in 0..127
  /\ mapIn.accidental = -MaxAccidental
  /\ Abs(noteOut.accidental) < Abs(mapIn.accidental)
  /\ noteOut.degree # mapIn.degree

\* C5, as claimed: with octaveShift 0 and an accidental of -1, 0 or 1 the note
\* spelled back is the original one, for every degree and header.
C5_ExactAsClaimed ==
  (pc = "spelled" /\ mapIn.octaveShift = 0 /\ mapIn.accidental \in {-1, 0, 1})
  => noteOut = NoteSpec(mapIn.degree, 0, mapIn.accidental)

\* the spellings the inverse mapping keeps: the degrees of the scale, and the
\* sharps of the degrees that have a whole tone above them
KeptSpelling(note) ==
  \/ note.accidental = 0
  \/ note.accidental = 1 /\ note.degree \in {1, 2, 4, 5, 6}

\* C5, amended: with octaveShift 0 the round trip is exact when the pitch lies
\* in 0..127 and the accidental is 0, or is +1 on degree 1, 2, 4, 5 or 6; a
\* flat, and a sharp on degree 3 or 7, come back respelled.
C5_ExactRoundTrip ==
  /\ (pc = "spelled" /\ mapIn.octaveShift = 0 /\ MapInPitch \in 0..127
      /\ KeptSpelling(mapIn))
     => noteOut = NoteSpec(mapIn.degree, 0, mapIn.accidental)
  /\ (pc = "spelled" /\ mapIn.octaveShift = 0 /\ MapInPitch \in 0..127
      /\ mapIn.accidental \in {-1, 1} /\ ~KeptSpelling(mapIn))
     => noteOut # NoteSpec(mapIn.degree, 0, mapIn.accidental)

C5_Witness ==
  /\ pc = "spelled" /\ mapIn.octaveShift = 0 /\ MapInPitch \in 0..127
  /\ mapIn.accidental = 1 /\ mapIn.degree = 4
  /\ mapIn.header.key = <<"B", "b">>
  /\ noteOut = NoteSpec(4, 0, 1)

\* ------------------------------------------------ variable-length quantity
\* C6: readVarLen at offset 0 of the bytes writeVarLen(v) wrote returns v and
\* the number of bytes written, and every byte but the last has bit 0x80 set.
C6_VarLenRoundTrip ==
  pc = "decoded" =>
    /\ vlq.read.value = vlq.value
    /\ vlq.read.next = Len(vlq.bytes)
    /\ \A k \in 1..(Len(vlq.bytes) - 1) : vlq.bytes[k] >= 128

\* the largest three-byte quantity
C6_Witness ==
  /\ pc = "decoded"
  /\ vlq.value = 2097151
  /\ vlq.bytes = <<255, 255, 127>>
  /\ vlq.read = [value |-> 2097151, next |-> 3]

\* ----------------------------------------------------------- parse errors
ChordCharacters == {"1", "2", "3", "4", "5", "6", "7", "+", "-", "#", "b", "_",
                    " ", "\n", "\t"}

\* the "(" at index i opens a chord that is unterminated, holds no note, or
\* holds a character that is no digit 1-7, modifier or whitespace
BadChordAt(body, i) ==
  /\ body[i] = "("
  /\ LET close == indexOf(body, ")", i + 1)
     IN \/ close = 0
        \/ \A k \in (i + 1)..(close - 1) : ~IsDegree(body[k])
        \/ \E k \in (i + 1)..(close - 1) : body[k] \notin ChordCharacters

\* C7: parseScore throws, and returns no Score, when the body holds a chord
\* that is unterminated, empty or has a foreign character, whatever precedes it.
C7_BadChordThrows ==
  (pc = "parsed" /\ \E i \in 1..Len(input.body) : BadChordAt(input.body, i))
  => (~score.ok /\ score.events = <<>>)

\* an unterminated chord after a valid note
C7_Witness ==
  /\ pc = "parsed"
  /\ Len(input.body) >= 3
  /\ IsDegree(input.body[1]) /\ input.body[2] = "(" /\ IsDegree(input.body[3])
  /\ indexOf(input.body, ")", 3) = 0
  /\ ~score.ok

\* C8: reading a file whose last track chunk declares more bytes than the
\* data holds fails and returns no tracks.
C8_TruncatedChunkThrows ==
  (pc = "read" /\ Len(midi) < Len(scoreToMidiBuffer(score)))
  => (~midiData.ok /\ midiData.tracks = <<>>)

\* ----------------------------------------------------------------- header
IsKey(item, name) == LowerCased(item.key) = name

\* a recognized field whose value the parser does not accept
BadField(item) ==
  \/ IsKey(item, <<"b", "p", "m">>) /\ (Number(item.value).nan \/ Number(item.value).n <= 0)
  \/ IsKey(item, <<"o", "c", "t">>) /\ Number(item.value).nan
  \/ IsKey(item, <<"v", "o", "l">>) /\ Number(item.value).nan
  \/ IsKey(item, <<"i", "n", "s", "t", "r">>)
       /\ Number(item.value).nan /\ INSTRUMENT_MAP(LowerCased(item.value)) = -1
  \/ IsKey(item, <<"k", "e", "y">>) /\ Capitalize(item.value) \notin KeyNames

HasBadField == \E k \in 1..Len(input.items) : BadField(input.items[k])

\* C9, as claimed: a recognized header field with an invalid value makes
\* parseScore fail.
C9_BadFieldAsClaimed ==
  (pc = "parsed" /\ Len(pairsOf(input.items)) > 0 /\ HasBadField) => ~score.ok

\* the header the fields give when the bad numeric fields are left out
WithoutBadNumbers(items) ==
  SelectSeq(items, LAMBDA it : ~BadField(it) \/ IsKey(it, <<"k", "e", "y">>))

\* C9, amended: a bad header field never makes parseScore fail: the Score is
\* returned, a BPM, Vol, Oct or Instr field with an invalid value is skipped
\* (the field keeps its default or the value of an earlier field), and a Key
\* that is no pitch-class name is stored as written, which the pitch mapper
\* reads as C.
C9_BadFieldSkipped ==
  (pc = "parsed" /\ Len(pairsOf(input.items)) > 0) =>
    /\ score.ok /\ Len(score.events) = 1
    /\ score.header = applyFields(DEFAULT_HEADER,
                                  WithoutBadNumbers(pairsOf(input.items)), 1)
    /\ score.header.bpm.n > 0 /\ ~score.header.bpm.nan
    /\ score.header.key \notin KeyNames => KeyOffsetOrZero(score.header) = 0

\* BPM=0 after BPM=200: the Score keeps 200
C9_Witness ==
  /\ pc = "parsed" /\ Len(input.items) = 2
  /\ input.items[1] = [key |-> <<"B", "P", "M">>, value |-> <<"2", "0", "0">>]
  /\ input.items[2] = [key |-> <<"B", "P", "M">>, value |-> <<"0">>]
  /\ score.ok /\ score.header.bpm = Rat(200, 1)

\* the Vol fields of the header with a numeric value
VolValues ==
  { Number(input.items[k].value) :
      k \in {j \in 1..Len(input.items) :
               IsKey(input.items[j], <<"v", "o", "l">>)
               /\ ~Number(input.items[j].value).nan} }

OneVolField ==
  /\ pc = "parsed" /\ score.ok
  /\ Cardinality({j \in 1..Len(input.items) : IsKey(input.items[j], <<"v", "o", "l">>)}) = 1
  /\ Cardinality(VolValues) = 1

\* C10, as claimed: Vol=v gives v/127 clamped to [0,1] when v > 1 and v
\* clamped to [0,1] otherwise, 0 for v = 0 and for negative v.
C10_VolumeAsClaimed ==
  OneVolField =>
    \A v \in VolValues :
      score.header.volume =
        IF RatLess(Rat(1, 1), v) THEN RatClamp(Rat(v.n, v.d * 127), 0, 1)
        ELSE RatClamp(v, 0, 1)

\* C10, amended: Vol=v with v > 1 gives v/127 clamped to [0,1], with
\* 0 < v <= 1 gives v, and with v <= 0 is skipped, the volume keeping its
\* default 0.8; the parsed volume always lies in (0,1].
C10_Volume ==
  /\ OneVolField =>
       \A v \in VolValues :
         score.header.volume =
           IF RatLess(Rat(1, 1), v)
           THEN (IF v.n > 127 * v.d THEN Rat(1, 1) ELSE Rat(v.n, v.d * 127))
           ELSE IF v.n > 0 THEN v ELSE Rat(8, 10)
  /\ (pc = "parsed" /\ score.ok) =>
       /\ RatLess(Rat(0, 1), score.header.volume)
       /\ ~RatLess(Rat(1, 1), score.header.volume)

\* Vol=64 alone: the volume is 64/127
C10_Witness ==
  /\ OneVolField
  /\ VolValues = {Rat(64, 1)}
  /\ score.header.volume = Rat(64, 127)


\* ------------------------------------------------------- duration grammar
Count(seq, c) == Cardinality({k \in 1..Len(seq) : seq[k] = c})

\* n dots and then m tildes
DotsThenTildes(suffix) ==
  \A j, k \in 1..Len(suffix) : (suffix[j] = "~" /\ suffix[k] = ".") => k < j

ExampleTypes == <<"note", "note", "chord", "rest", "note", "note", "chord">>
ExampleBeats == <<2, 2, 4, 2, 2, 2, 3>>     \* in half beats

\* C11: an event token followed by n dots and then m tildes is parsed into one
\* event with durationBeats = 1.5^n + m (1 for the empty suffix), and the
\* example text parses to 7 events of the stated types and durations with
\* totalBeats = 8.5.
C11_DurationGrammar ==
  /\ (pc = "parsed" /\ input # ExampleText /\ DotsThenTildes(SuffixOf(input.body)))
     => LET n == Count(SuffixOf(input.body), ".")
            m == Count(SuffixOf(input.body), "~")
        IN /\ score.ok /\ Len(score.events) = 1
           /\ score.events[1].durationBeats * Pow(2, n)
                = (Pow(3, n) + m * Pow(2, n)) * BeatUnit
           /\ (n = 0 /\ m = 0) => score.events[1].durationBeats = BeatUnit
  /\ (pc = "parsed" /\ input = ExampleText)
     => /\ score.ok /\ Len(score.events) = 7
        /\ \A k \in 1..7 :
             /\ score.events[k].type = ExampleTypes[k]
             /\ 2 * score.events[k].durationBeats = ExampleBeats[k] * BeatUnit
        /\ 2 * score.totalBeats = 17 * BeatUnit

\* a chord with two dots and a tilde: 3.25 beats
C11_Witness ==
  /\ pc = "parsed"
  /\ input.body = <<"(", "1", "5", ")", ".", ".", "~">>
  /\ score.ok /\ score.events[1].type = "chord"
  /\ 4 * score.events[1].durationBeats = 13 * BeatUnit

\* ---------------------------------------------------------- track markers
\* the indices at which a "// Track " marker starts
MarkersIn(t) ==
  {i \in 1..Len(t) :
     i + Len(TrackMarker) - 1 <= Len(t)
     /\ SubSeq(t, i, i + Len(TrackMarker) - 1) = TrackMarker}

StartsWith(t, i, part) ==
  i + Len(part) - 1 <= Len(t) /\ SubSeq(t, i, i + Len(part) - 1) = part

\* the text t renders the scores: alone and unmarked when there is one, and
\* otherwise one block per score, the k-th headed "// Track k", in order,
\* with an empty line between blocks
Renders(t, scoreList) ==
  LET N == Len(scoreList)
      block(k) == TrackMarker \o IntText(k) \o <<"\n">> \o scoreToText(scoreList[k])
  IN IF N = 1
     THEN t = scoreToText(scoreList[1]) /\ MarkersIn(t) = {}
     ELSE /\ Cardinality(MarkersIn(t)) = N
          /\ LET start[k \in 1..N] ==
                    IF k = 1 THEN 1 ELSE start[k - 1] + Len(block(k - 1)) + 2
             IN \A k \in 1..N :
                  /\ start[k] \in MarkersIn(t)
                  /\ StartsWith(t, start[k], block(k))
                  /\ IF k < N
                     THEN StartsWith(t, start[k] + Len(block(k)), <<"\n", "\n">>)
                     ELSE start[k] + Len(block(k)) - 1 = Len(t)

DeclaredTracks == readUInt16BE(midi, 10)

\* C12: for a file of N >= 1 tracks midiToText and midiToTexts.combinedText
\* render N Scores: for N = 1 the scoreToText of the Score with no marker, for
\* N > 1 exactly N markers "// Track k", k = 1..N in track order, each before
\* its track's text, the blocks separated by an empty line.
C12_TrackMarkers ==
  /\ pc = "text" =>
       Len(scores) = DeclaredTracks /\ Renders(text.text, scores)
  /\ pc = "texts" =>
       Len(scores) = DeclaredTracks /\ Renders(text.combinedText, scores)

\* two tracks of one note each
C12_Witness ==
  /\ pc = "text"
  /\ Len(scores) = 2
  /\ \A k \in 1..2 : Len(scores[k].events) = 1 /\ scores[k].events[1].type = "note"
  /\ Cardinality(MarkersIn(text.text)) = 2

\* ------------------------------------------------------- order of writing
\* the messages of the track chunk of a written file, as (tick, status), read
\* off the bytes: delta time, status byte, and the data bytes of the kinds of
\* message the writer emits
RECURSIVE WrittenMessages(_, _, _, _)
WrittenMessages(data, offset, tick, out) ==
  LET delta == readVarLen(data, offset)
      status == At(data, delta.next)
      size == IF status = 255 THEN 3 + At(data, delta.next + 2)
              ELSE IF status = 192 THEN 2 ELSE 3
  IN IF status = 255 /\ At(data, delta.next + 1) = 47 THEN out
     ELSE Only({WrittenMessages(data, next[1], next[2], next[3]) :
                  next \in {<<delta.next + size, tick + delta.value,
                              Append(out, [tick |-> tick + delta.value,
                                           status |-> status,
                                           delta |-> delta.value])>>}})

WrittenTrack == WrittenMessages(midi, 22, 0, <<>>)

\* C13: the messages of a written track are in (tick, order) order, with
\* order tempo 0, program 1, controller 2, note-on 3, note-off 0: the ticks
\* never decrease, every delta is non-negative, and at a tick every note-off
\* is written before every note-on.
C13_WrittenInOrder ==
  pc = "midi" =>
    LET listed == midiEventsOf(score.header, score.events, TicksPerBeat)
        written == WrittenTrack
    IN /\ \A j, k \in 1..Len(listed) :
            j < k => \/ listed[j].tick < listed[k].tick
                     \/ /\ listed[j].tick = listed[k].tick
                        /\ listed[j].order <= listed[k].order
       /\ \A k \in 1..Len(listed) :
            listed[k].order =
              CASE listed[k].bytes[1] = 255 -> 0
                [] listed[k].bytes[1] = 192 -> 1
                [] listed[k].bytes[1] = 176 -> 2
                [] listed[k].bytes[1] = 144 -> 3
                [] listed[k].bytes[1] = 128 -> 0
       /\ Len(written) = Len(listed)
       /\ \A k \in 1..Len(written) :
            /\ written[k].tick = listed[k].tick
            /\ written[k].status = listed[k].bytes[1]
            /\ written[k].delta >= 0
       /\ \A j, k \in 1..Len(written) :
            (written[j].tick = written[k].tick
             /\ written[j].status = 128 /\ written[k].status = 144) => j < k

\* the chord (15) and then the note 1: at tick 480 two note-offs and a note-on
C13_Witness ==
  /\ pc = "midi"
  /\ Len(score.events) >= 2
  /\ score.events[1].type = "chord" /\ score.events[2].type = "note"
  /\ Cardinality({k \in 1..Len(WrittenTrack) :
                    WrittenTrack[k].tick = 480 /\ WrittenTrack[k].status = 128}) = 2
  /\ \E k \in 1..Len(WrittenTrack) :
       WrittenTrack[k].tick = 480 /\ WrittenTrack[k].status = 144

\* ---------------------------------------------------------- pending notes
\* the message the walk meets at st.offset: its tick, status (the running
\* status for data bytes alone) and two data bytes
Arrival(data, st) ==
  LET delta == readVarLen(data, st.offset)
      byte == At(data, delta.next)
      running == byte # Undef /\ byte < 128
      status == IF running THEN st.runningStatus ELSE byte
      at == IF running THEN delta.next ELSE delta.next + 1
  IN [tick |-> st.currentTick + delta.value,
      type |-> AndF0(status),
      key |-> <<And0F(status), At(data, at)>>,
      note |-> At(data, at),
      velocity |-> At(data, at + 1)]

IsClose(a) == a.type = 128 \/ (a.type = 144 /\ a.velocity = 0)
IsOpen(a) == a.type = 144 /\ a.velocity # 0

\* the walk over the given bytes has ended
WalkIs(bytes) == pc = "walked" /\ midi = bytes

\* C14: in the walk over a track a NoteEvent is emitted exactly when a
\* note-off, or a note-on of velocity 0, arrives for a (channel, pitch) that
\* has a pending note; it carries the start tick and velocity the opening
\* note-on stored, the current tick and the pitch, and the pending entry is
\* removed.  A close without a pending note emits nothing and changes no
\* pending entry, and the notes pending at the end are not emitted.
C14_PendingNotes ==
  [][ /\ (pc = "walk" /\ pc' = "walk") =>
           LET a == Arrival(midi, track.st)
               old == track.st
               new == track'.st
           IN /\ IF IsClose(a) /\ a.key \in DOMAIN old.activeNotes
                 THEN /\ new.noteEvents =
                           Append(old.noteEvents,
                                  [startTick |-> old.activeNotes[a.key].startTick,
                                   endTick |-> a.tick,
                                   note |-> a.note,
                                   velocity |-> old.activeNotes[a.key].velocity])
                      /\ DOMAIN new.activeNotes = DOMAIN old.activeNotes \ {a.key}
                      /\ \A k \in DOMAIN new.activeNotes :
                           new.activeNotes[k] = old.activeNotes[k]
                 ELSE /\ new.noteEvents = old.noteEvents
                      /\ IsClose(a) => new.activeNotes = old.activeNotes
              /\ IsOpen(a) =>
                   /\ a.key \in DOMAIN new.activeNotes
                   /\ new.activeNotes[a.key] =
                        [startTick |-> a.tick, velocity |-> a.velocity]
      /\ (pc = "walk" /\ pc' = "walked") =>
           midiData'.tracks[1].noteEvents = track.st.noteEvents ]_vars

\* a note closed at tick 96 and a note of channel 1 still pending at the end
C14_Witness ==
  /\ WalkIs(<<0, 144, 60, 100, 0, 145, 60, 80, 96, 128, 60, 64>>)
  /\ midiData.tracks[1].noteEvents = <<MidiNoteEvent(0, 96, 60, 100)>>
  /\ DOMAIN track.st.activeNotes = {<<1, 60>>}

\* C15: every NoteEvent the reader emits has endTick > startTick; a note-on
\* and its close at the same tick yield no NoteEvent.
C15_EndAfterStart ==
  pc = "walked" =>
    \A k \in 1..Len(midiData.tracks[1].noteEvents) :
      midiData.tracks[1].noteEvents[k].endTick
        > midiData.tracks[1].noteEvents[k].startTick

\* ------------------------------------------------ representable durations
\* the body scoreToText prints for a Score, read back by parseScore
ReadBack(sc) ==
  parseScore([NoInput EXCEPT !.body =
    join([k \in 1..Len(sc.events) |-> eventToText(sc.events[k])], <<" ">>)])

\* C16: every event the reconstructor emits has a duration that is a positive
\* multiple of half a beat, and the suffix scoreToText prints for it is read
\* back by parseScore as the same duration, the minimum 0.5 included.
C16_DurationsReadBack ==
  pc = "rebuilt" =>
    \A s \in 1..Len(scores) :
      LET back == ReadBack(scores[s])
      IN /\ back.ok /\ Len(back.events) = Len(scores[s].events)
         /\ \A k \in 1..Len(scores[s].events) :
              /\ scores[s].events[k].durationBeats > 0
              /\ (2 * scores[s].events[k].durationBeats) % BeatUnit = 0
              /\ back.events[k].durationBeats = scores[s].events[k].durationBeats

\* ------------------------------------------------------------------ rests
\* the note groups of a list of note events: the (startTick, endTick) pairs
GroupsOf(noteEvents) ==
  {<<noteEvents[k].startTick, noteEvents[k].endTick>> : k \in 1..Len(noteEvents)}

\* the orders of the groups that ascend by startTick
AscendingOrders(groups) ==
  {order \in [1..Cardinality(groups) -> groups] :
     /\ \A j, k \in 1..Cardinality(groups) : j # k => order[j] # order[k]
     /\ \A j, k \in 1..Cardinality(groups) : j < k => order[j][1] <= order[k][1]}

\* max(0.5, round(beats * 2) / 2), in half beats
HalfBeats(ticks, ticksPerBeat) ==
  LET twice == (2 * ticks) \div ticksPerBeat
      rounded == IF 2 * ((2 * ticks) % ticksPerBeat) >= ticksPerBeat
                 THEN twice + 1 ELSE twice
  IN IF rounded < 1 THEN 1 ELSE rounded

\* what the groups, taken in the given order from cursor on, are emitted as:
\* (is it a rest, half beats, number of notes)
RECURSIVE Emitted(_, _, _, _, _)
Emitted(order, k, cursor, noteEvents, ticksPerBeat) ==
  IF k > Len(order) THEN <<>>
  ELSE (IF order[k][1] > cursor
        THEN <<<<TRUE, HalfBeats(order[k][1] - cursor, ticksPerBeat), 0>>>>
        ELSE <<>>)
       \o <<<<FALSE, HalfBeats(order[k][2] - order[k][1], ticksPerBeat),
              Cardinality({j \in 1..Len(noteEvents) :
                             noteEvents[j].startTick = order[k][1]
                             /\ noteEvents[j].endTick = order[k][2]})>>>>
       \o Emitted(order, k + 1, order[k][2], noteEvents, ticksPerBeat)

Shape(events) ==
  [k \in 1..Len(events) |->
     <<events[k].type = "rest", (2 * events[k].durationBeats) \div BeatUnit,
       Len(events[k].notes)>>]

\* C17: buildScoreFromNoteEvents emits the note groups in ascending startTick
\* order, and before a group a Rest of the quantized gap exactly when the
\* group starts after the cursor, which is 0 at first and then the endTick of
\* the group emitted last; a zero or negative gap emits no Rest.
C17_RestsFillGaps ==
  pc = "rebuilt" =>
    \A s \in 1..Len(scores) :
      \E order \in AscendingOrders(GroupsOf(midiData.tracks[s].noteEvents)) :
        Shape(scores[s].events)
          = Emitted(order, 1, 0, midiData.tracks[s].noteEvents,
                    midiData.ticksPerBeat)

\* three notes given out of order: the second starts before the first ends
\* (no Rest), the third starts after the cursor (a Rest)
C17_Witness ==
  /\ pc = "rebuilt" /\ midi = <<>>
  /\ midiData.tracks[1].noteEvents =
       <<MidiNoteEvent(480, 960, 60, 100), MidiNoteEvent(240, 340, 64, 100),
         MidiNoteEvent(0, 480, 60, 100)>>
  /\ [k \in 1..Len(scores[1].events) |-> scores[1].events[k].type]
       = <<"note", "note", "rest", "note">>

\* ------------------------------------------------------------------ tempo
\* the three data bytes of the tempo meta event of a written file
WrittenTempo == midi[27] * 65536 + midi[28] * 256 + midi[29]

\* C18: for every positive bpm of a parsed header the tempo meta event at
\* tick 0 carries round(60,000,000 / bpm) in its three data bytes, and reading
\* the file returns that tempo.
C18_TempoWritten ==
  /\ pc = "midi" =>
       /\ SubSeq(midi, 23, 26) = <<0, 255, 81, 3>>
       /\ WrittenTempo = RoundDiv(60000000 * score.header.bpm.d, score.header.bpm.n)
  /\ (pc = "read" /\ midiData.ok) =>
       midiData.tempo = RoundDiv(60000000 * score.header.bpm.d, score.header.bpm.n)

\* -------------------------------------------------------- inverse mapping
\* C19: for every MIDI pitch p in 0..127 and every header, midiNoteToSpec
\* returns a NoteSpec of degree 1..7 from which degreeToMidi, under the same
\* header, gives back p.
C19_InverseLossless ==
  /\ [](pc \in {"respelled", "sounded"} => noteOut.degree \in 1..7)
  /\ [][pc' = "sounded" =>
          /\ pitch' = pitch
          /\ mapIn'.header = mapIn.header
          /\ <<mapIn'.degree, mapIn'.octaveShift, mapIn'.accidental>>
               = <<noteOut.degree, noteOut.octaveShift, noteOut.accidental>>]_vars

\* pitch 0 in the key of B, octave 4: the tonic is 71, and 0 is 1# six octaves down
C19_Witness ==
  /\ pc = "sounded"
  /\ pitch = 0
  /\ mapIn.header.key = <<"B">> /\ mapIn.header.octave = 4
  /\ noteOut = NoteSpec(1, -6, 1)

\* ------------------------------------------------------------ termination
\* C20: the walk of parseMidiTrack ends for every byte sequence and every
\* declared track length, overlong length quantities and lengths that run
\* past the data included.
C20_WalkTerminates == [](pc = "walk" => <>(pc = "walked"))
====
